---- MODULE Spec2Model ----
(***************************************************************************)
(* Model of the decision-and-navigation core of neonmoe/ld57 (game-lib):   *)
(*   - pathfinding.rs : Direction, Path (2 bits per step), find_path_to,   *)
(*                      find_path_to_any                                   *)
(*   - notifications.rs : NotificationSet (the haul broker)                *)
(*   - brain.rs : Brain::update_goals (the goal stack planner)             *)
(* The specifications share the variables: SpecPath runs one search of the *)
(* path finder step by step, SpecBroker drives the broker with any         *)
(* sequence of calls, SpecBrain runs the think loop of lib.rs over the     *)
(* brains, SpecBacklog runs the same loop for a character that stays next  *)
(* to its station while more haul requests are issued. SpecGrid drives a   *)
(* BitGrid of two 128-bit words per row with set and get calls, SpecSteps  *)
(* builds a Path step by step up to its capacity and reverses it.          *)
(* SpecFull runs the think loop from a Hauler whose goal stack is full,    *)
(* SpecDetour runs it with paths of up to two steps.                       *)
(***************************************************************************)
EXTENDS Integers, Sequences, FiniteSets, TLC

VARIABLES
    \* ---- path finder (one call of find_path_to / find_path_to_any)
    width, height,              \* walls.width(), walls.height()
    walls,                      \* the set of tiles whose bit is set in `walls`
    destinations,               \* the set of tiles set in `destinations`
    from,                       \* the origin of the search
    single_destination,         \* TRUE when the call came through find_path_to
    allow_wall_destination,     \* the flag of the five-argument call
    try_positions,              \* FixedVec<TilePosition>, capacity width*height
    shortest_distance_to_pos,   \* Grid<u8>
    step_to_previous_in_path,   \* Grid<Direction>
    pf_pc,                      \* "idle", "search", "done", "panic"
    pf_result,                  \* None or a Path
    pushed,                     \* history: every position pushed on try_positions
    \* ---- broker (NotificationSet<HaulDescription>)
    notifications,              \* FixedVec<(u32, T)>
    id_counter,                 \* u32
    capacity,                   \* the capacity given to NotificationSet::new
    last_call,                  \* the last broker call and what it returned
    issued,                     \* history: ids returned by successful notify
    claimed,                    \* history: ids for which remove returned Some
    \* ---- brains (Game.brains and the think loop of Game::tick)
    brains,                     \* brain index -> Brain
    next_brain,                 \* the brain the think loop calls next
    panicked,                   \* TRUE once a push on a full goal stack aborted
    job_changes,                \* how often the menu changed an occupation
    last_think,                 \* what the last update_goals call did
    \* ---- a BitGrid under set and get calls (grid.rs)
    bitgrid,                    \* the BitGrid: values, width, height, stride
    bitgrid_call,               \* the last BitGrid call and what it returned
    \* ---- a Path under add_step and reverse calls (pathfinding.rs)
    built,                      \* the Path under the calls
    pattern,                    \* the directions the add_step calls cycle through
    added,                      \* history: the directions add_step took in
    path_call,                  \* the last Path call and what it returned
    reversals,                  \* how many reverse calls were made
    unreversed,                 \* history: the path before the first reverse
    \* ---- the wander target of Goal::Relax (brain.rs 168-178, 695-698)
    seahash,                    \* seahash::hash >> 32 of the byte strings hashed so far
    relax_seen,                 \* history: first target chosen for each input
    relax_call,                 \* the last choice of a target
    \* ---- the game objects of the scene (game_object.rs, lib.rs 285-290)
    stockpiles,                 \* the objects with a Stockpile, in storage order
    stock_call,                 \* the last call that changed a stockpile
    characters,                 \* the Character objects: brain_index, position
    move_call                   \* the last movement phase of Game::tick

pathVars == <<width, height, walls, destinations, from, single_destination,
              allow_wall_destination,
              try_positions, shortest_distance_to_pos,
              step_to_previous_in_path, pf_pc, pf_result, pushed>>
brokerVars == <<notifications, id_counter, capacity, last_call, issued, claimed>>
brainVars == <<brains, next_brain, panicked, job_changes, last_think>>
gridVars == <<bitgrid, bitgrid_call>>
stepVars == <<built, pattern, added, path_call, reversals, unreversed>>
relaxVars == <<seahash, relax_seen, relax_call>>
sceneVars == <<stockpiles, stock_call, characters, move_call>>
unitVars == <<gridVars, stepVars, relaxVars, sceneVars>>
vars == <<pathVars, brokerVars, brainVars, unitVars>>

\* Option<T>: None is the empty sequence, Some(x) the sequence of x alone
None == <<>>

Some(x) == <<x>>

Unwrap(o) == o[1]

\* no update_goals call has been made since the last change from outside
NoThink == [brain |-> -1]

\* the specifications of the path finder and of the broker hold no brains
BrainIdle ==
    /\ brains = <<>>
    /\ next_brain = 0
    /\ panicked = FALSE
    /\ job_changes = 0
    /\ last_think = NoThink

\* ------------------------------------------------------------------ bounds
GridW == 2
GridH == 2
MaxWalls == 2
MaxDestinations == 2
BrokerCapacity == 2
MaxIds == 3
MaxAmount == 2

SubsetsUpTo(S, n) == {X \in SUBSET S : Cardinality(X) <= n}

\* ------------------------------------------------------- Direction (94-154)
Up == "Up"
Down == "Down"
Left == "Left"
Right == "Right"

ALL_DIRECTIONS == <<Up, Down, Left, Right>>

Directions == {Up, Down, Left, Right}

to_u8(d) ==
    CASE d = Up -> 0
      [] d = Down -> 1
      [] d = Left -> 2
      [] d = Right -> 3

from_u8(u) ==
    CASE u = 0 -> Up
      [] u = 1 -> Down
      [] u = 2 -> Left
      [] OTHER -> Right

Neg(d) ==
    CASE d = Up -> Down
      [] d = Down -> Up
      [] d = Left -> Right
      [] d = Right -> Left

\* TilePosition + Direction
AddDir(pos, d) ==
    CASE d = Up -> <<pos[1], pos[2] - 1>>
      [] d = Down -> <<pos[1], pos[2] + 1>>
      [] d = Left -> <<pos[1] - 1, pos[2]>>
      [] d = Right -> <<pos[1] + 1, pos[2]>>

\* ------------------------------------------------------------ Path (156-298)
QUAD_CAPACITY == 56

Pow4(n) == IF n = 0 THEN 1 ELSE IF n = 1 THEN 4 ELSE IF n = 2 THEN 16 ELSE 64

\* bitwise or of two 2-bit values
Or2(a, b) ==
    (IF (a % 2 = 1) \/ (b % 2 = 1) THEN 1 ELSE 0)
    + 2 * (IF (a \div 2 = 1) \/ (b \div 2 = 1) THEN 1 ELSE 0)

\* (quad >> (offset * 2)) & 0b11
QuadField(quad, offset) == (quad \div Pow4(offset)) % 4

\* quad | (v << (offset * 2)) for a 2-bit v
QuadOr(quad, offset, v) ==
    quad - QuadField(quad, offset) * Pow4(offset)
         + Or2(QuadField(quad, offset), v) * Pow4(offset)

PathDefault == [step_quads |-> <<>>, steps_in_last_quad |-> 0]

\* mutant: a step added to a started byte overwrites the byte
add_stepOverwriting(p, direction) ==
    IF p.steps_in_last_quad % 4 = 0
    THEN IF Len(p.step_quads) >= QUAD_CAPACITY
         THEN [path |-> p, ok |-> FALSE]
         ELSE [path |-> [step_quads |-> Append(p.step_quads, to_u8(direction)),
                         steps_in_last_quad |-> (p.steps_in_last_quad + 1) % 4],
               ok |-> TRUE]
    ELSE LET n == Len(p.step_quads)
         IN [path |-> [step_quads |->
                          [p.step_quads EXCEPT
                              ![n] = to_u8(direction) * Pow4(p.steps_in_last_quad)],
                       steps_in_last_quad |-> p.steps_in_last_quad + 1],
             ok |-> TRUE]

\* Path::add_step: the path after the call and the value returned
add_step(p, direction) ==
    IF p.steps_in_last_quad % 4 = 0
    THEN IF Len(p.step_quads) >= QUAD_CAPACITY
         THEN [path |-> p, ok |-> FALSE]
         ELSE [path |-> [step_quads |-> Append(p.step_quads, to_u8(direction)),
                         steps_in_last_quad |-> (p.steps_in_last_quad + 1) % 4],
               ok |-> TRUE]
    ELSE LET n == Len(p.step_quads)
             quad == p.step_quads[n]
         IN [path |-> [step_quads |->
                          [p.step_quads EXCEPT
                              ![n] = QuadOr(quad, p.steps_in_last_quad, to_u8(direction))],
                       steps_in_last_quad |-> p.steps_in_last_quad + 1],
             ok |-> TRUE]

is_empty(p) == p.step_quads = <<>>

is_full(p) == p.steps_in_last_quad = 4 /\ Len(p.step_quads) = QUAD_CAPACITY

\* Path::len (u8 arithmetic, saturating_sub)
len(p) ==
    p.steps_in_last_quad
    + (IF Len(p.step_quads) = 0 THEN 0 ELSE Len(p.step_quads) - 1) * 4

\* PathIterator::next (268-278) called until the byte is used up: the steps
\* of one byte from its first step up
QuadForward(current_quad, steps_in_current_quad) ==
    [k \in 1..steps_in_current_quad |->
        from_u8(QuadField(current_quad, k - 1))]

\* PathIterator::next, run to exhaustion: the steps front to back, one byte
\* of step_quads to each level of the recursion
RECURSIVE IterForward(_, _)
IterForward(p, current_quad_index) ==
    IF current_quad_index >= Len(p.step_quads)
    THEN <<>>
    ELSE LET idx == current_quad_index
             steps_in_current_quad ==
                 IF idx = Len(p.step_quads) - 1 THEN p.steps_in_last_quad ELSE 4
         IN QuadForward(p.step_quads[idx + 1], steps_in_current_quad)
            \o IterForward(p, idx + 1)

Steps(p) == IterForward(p, 0)

\* PathIterator::next_back (284-288) called until the byte is popped: the
\* steps of the last byte from its last step down
QuadBackward(current_quad, steps_in_last_quad) ==
    [k \in 1..steps_in_last_quad |->
        from_u8(QuadField(current_quad, steps_in_last_quad - k))]

\* mutant: after a pop the last byte is taken to hold three steps
RECURSIVE IterBackwardShort(_, _)
IterBackwardShort(step_quads, steps_in_last_quad) ==
    IF step_quads = <<>>
    THEN <<>>
    ELSE QuadBackward(step_quads[Len(step_quads)], steps_in_last_quad)
         \o IterBackwardShort(SubSeq(step_quads, 1, Len(step_quads) - 1), 3)

\* PathIterator::next_back, run to exhaustion: the steps back to front; after
\* a pop the last byte holds four steps (289-293)
RECURSIVE IterBackward(_, _)
IterBackward(step_quads, steps_in_last_quad) ==
    CHOOSE steps \in
        {IF quads = <<>>
         THEN <<>>
         ELSE QuadBackward(quads[Len(quads)], steps_in_last_quad)
              \o IterBackward(SubSeq(quads, 1, Len(quads) - 1), 4)
         : quads \in {step_quads}} : TRUE

\* add_step called with each of dirs in order, on the first half of dirs and
\* then on the second; a full path takes no further step
RECURSIVE AddSteps(_, _)
AddSteps(p, dirs) ==
    CHOOSE path \in
        {IF d = <<>> THEN p
         ELSE IF Len(d) = 1 THEN add_step(p, d[1]).path
         ELSE CHOOSE whole \in
                {IF is_full(first_half)
                 THEN first_half
                 ELSE AddSteps(first_half,
                               SubSeq(d, (Len(d) \div 2) + 1, Len(d)))
                 : first_half \in {AddSteps(p, SubSeq(d, 1, Len(d) \div 2))}} :
                TRUE
         : d \in {dirs}} : TRUE

\* Path::reverse
reverse(p) ==
    CHOOSE reversed \in
        {AddSteps(PathDefault, [i \in 1..Len(back) |-> Neg(back[i])])
         : back \in {IterBackward(p.step_quads, p.steps_in_last_quad)}} : TRUE

\* -------------------------------------------- a Path under add_step, reverse
PatternLen == 3
MaxReversals == 2

PathCall(op, ret, before) == [op |-> op, ret |-> ret, before |-> before]

\* Path::default (156)
StepsFresh ==
    /\ built = PathDefault
    /\ added = <<>>
    /\ path_call = PathCall("default", TRUE, PathDefault)
    /\ reversals = 0
    /\ unreversed = PathDefault

\* the specifications of the other parts hold an empty path and add no step
StepsIdle == StepsFresh /\ pattern = <<>>

\* built.add_step(direction), the directions cycling through the pattern
PathAddStep ==
    /\ pattern # <<>>
    /\ reversals = 0
    /\ LET direction == pattern[(Len(added) % Len(pattern)) + 1]
           r == add_step(built, direction)
       IN /\ built' = r.path
          /\ added' = IF r.ok THEN Append(added, direction) ELSE added
          /\ path_call' = PathCall("add_step", r.ok, built)
    /\ UNCHANGED <<pattern, reversals, unreversed>>
    /\ UNCHANGED <<pathVars, brokerVars, brainVars, gridVars, relaxVars, sceneVars>>

\* built = built.reverse()
PathReverse ==
    /\ pattern # <<>>
    /\ reversals < MaxReversals
    /\ built' = reverse(built)
    /\ reversals' = reversals + 1
    /\ unreversed' = IF reversals = 0 THEN built ELSE unreversed
    /\ path_call' = PathCall("reverse", TRUE, built)
    /\ UNCHANGED <<pattern, added>>
    /\ UNCHANGED <<pathVars, brokerVars, brainVars, gridVars, relaxVars, sceneVars>>

\* ------------------------------------------------------- BitGrid (grid.rs)
Tiles(w, h) == (0..(w - 1)) \X (0..(h - 1))

in_bounds(w, h, pos) ==
    pos[1] >= 0 /\ pos[2] >= 0 /\ pos[1] < w /\ pos[2] < h

\* BitGrid::get on a grid held as the set of its set bits
get(grid, pos) == pos \in grid

\* ------------------------------------- BitGrid word by word (grid.rs 69-142)
BIT_GRID_BITS == 128

BitGridW == 130
BitGridH == 2

\* usize::div_ceil
DivCeil(a, b) == (a + b - 1) \div b

\* a u128 is held as the set of the offsets of its one bits
U128Bits == 0..(BIT_GRID_BITS - 1)

\* (b as u128) << offset, for offset < 128
ShiftLeft(b, offset) == IF b THEN {offset} ELSE {}

\* !word
BitNot(word) == U128Bits \ word

\* BitGrid::new (79-92): stride * height zeroed words
BitGridNew(w, h) ==
    LET stride == DivCeil(w, BIT_GRID_BITS)
    IN [values |-> [i \in 0..(stride * h - 1) |-> {}],
        width |-> w, height |-> h, stride |-> stride]

\* the four asserts at the head of set (114-117) and of get (132-135)
BitGridAsserts(g, pos) ==
    /\ pos[1] >= 0
    /\ pos[1] < g.width
    /\ pos[2] >= 0
    /\ pos[2] < g.height

\* mutant: the word is chosen by the row alone
BitGridSetOneWord(g, pos, new_value) ==
    LET x_bit_offset == pos[1] % BIT_GRID_BITS
        i == pos[2] * g.stride
    IN [g EXCEPT !.values[i] = g.values[i] \cup ShiftLeft(new_value, x_bit_offset)]

\* BitGrid::set (119-128), the asserts passed
BitGridSet(g, pos, new_value) ==
    LET x == pos[1]
        bitfield_x == x \div BIT_GRID_BITS
        x_bit_offset == x % BIT_GRID_BITS
        i == bitfield_x + pos[2] * g.stride
    IN IF new_value
       THEN [g EXCEPT !.values[i] =
                g.values[i] \cup ShiftLeft(new_value, x_bit_offset)]
       ELSE [g EXCEPT !.values[i] =
                g.values[i] \cap BitNot(ShiftLeft(new_value, x_bit_offset))]

\* BitGrid::get (137-141), the asserts passed
BitGridGet(g, pos) ==
    LET x == pos[1]
        bitfield_x == x \div BIT_GRID_BITS
        bitfield == g.values[bitfield_x + pos[2] * g.stride]
        x_bit_offset == x % BIT_GRID_BITS
    IN (bitfield \cap ShiftLeft(TRUE, x_bit_offset)) # {}

\* the positions the calls are made with: both ends of both words of every
\* row, and one position off each side of the grid
GridProbes ==
    ({0, BIT_GRID_BITS - 1, BIT_GRID_BITS, BitGridW - 1} \X (0..(BitGridH - 1)))
    \cup {<<-1, 0>>, <<BitGridW, 0>>}

BitGridCall(op, pos, new_value, ret, aborted, before) ==
    [op |-> op, pos |-> pos, new_value |-> new_value, ret |-> ret,
     aborted |-> aborted, before |-> before]

GridFresh ==
    /\ bitgrid = BitGridNew(BitGridW, BitGridH)
    /\ bitgrid_call = BitGridCall("new", <<0, 0>>, FALSE, FALSE, FALSE,
                                  BitGridNew(BitGridW, BitGridH))

\* no byte string hashed, no target chosen
RelaxFresh ==
    /\ seahash = <<>>
    /\ relax_seen = <<>>
    /\ relax_call = [key |-> <<>>, repeated |-> FALSE]

\* no game object is looked at
SceneIdle ==
    /\ stockpiles = <<>>
    /\ stock_call = [op |-> "none"]
    /\ characters = <<>>
    /\ move_call = [op |-> "none"]

UnitIdle == GridFresh /\ StepsIdle /\ RelaxFresh /\ SceneIdle

\* grid.set(pos, new_value)
BitGridSetCall(pos, new_value) ==
    /\ ~bitgrid_call.aborted
    /\ IF BitGridAsserts(bitgrid, pos)
       THEN /\ bitgrid' = BitGridSet(bitgrid, pos, new_value)
            /\ bitgrid_call' =
                   BitGridCall("set", pos, new_value, FALSE, FALSE, bitgrid)
       ELSE /\ bitgrid' = bitgrid
            /\ bitgrid_call' =
                   BitGridCall("set", pos, new_value, FALSE, TRUE, bitgrid)
    /\ UNCHANGED <<pathVars, brokerVars, brainVars, stepVars, relaxVars, sceneVars>>

\* grid.get(pos)
BitGridGetCall(pos) ==
    /\ ~bitgrid_call.aborted
    /\ IF BitGridAsserts(bitgrid, pos)
       THEN bitgrid_call' =
               BitGridCall("get", pos, FALSE, BitGridGet(bitgrid, pos), FALSE,
                           bitgrid)
       ELSE bitgrid_call' = BitGridCall("get", pos, FALSE, FALSE, TRUE, bitgrid)
    /\ bitgrid' = bitgrid
    /\ UNCHANGED <<pathVars, brokerVars, brainVars, stepVars, relaxVars, sceneVars>>

\* ------------------------------------- find_path_to_any (pathfinding.rs 27-92)
ZeroedDistances(w, h) == [t \in Tiles(w, h) |-> 0]

\* Grid<Direction>::new_zeroed: the zero byte is Direction::Up
ZeroedSteps(w, h) == [t \in Tiles(w, h) |-> from_u8(0)]

\* lines 40-50: the index of the first queued position of least distance
RECURSIVE MinIndexFrom(_, _, _, _)
MinIndexFrom(q, dist, i, best) ==
    IF i > Len(q) THEN best
    ELSE IF dist[q[i]] < dist[q[best]]
         THEN MinIndexFrom(q, dist, i + 1, i)
         ELSE MinIndexFrom(q, dist, i + 1, best)

\* mutant: the position queued last is taken
MinIndexLast(q, dist) == Len(q)

MinIndex(q, dist) == MinIndexFrom(q, dist, 2, 1)

\* mutant: the position taken from the try list stays on it
SwapKeep(q, i) == q

\* lines 70-72: swap(try_pos_index, last_index); truncate(last_index)
SwapRemove(q, i) ==
    LET last == Len(q)
        swapped == [q EXCEPT ![i] = q[last], ![last] = q[i]]
    IN SubSeq(swapped, 1, last - 1)

\* mutant: the neighbor is taken without looking at the walls
NeighborOpenThroughWalls(w, h, wl, dist, neighbor) ==
    /\ in_bounds(w, h, neighbor)
    /\ dist[neighbor] = 0

\* lines 79-82: the neighbor is taken into the try list
NeighborOpen(w, h, wl, dist, neighbor) ==
    /\ in_bounds(w, h, neighbor)
    /\ ~get(wl, neighbor)
    /\ dist[neighbor] = 0

\* lines 73-88: the loop over ALL_DIRECTIONS for one expanded position
RECURSIVE ExpandFrom(_, _, _, _)
ExpandFrom(st, try_pos, try_pos_distance, i) ==
    IF i > Len(ALL_DIRECTIONS) THEN st
    ELSE CHOOSE expanded \in
           {LET dir == ALL_DIRECTIONS[i]
                neighbor == AddDir(try_pos, dir)
            IN IF s.step[try_pos] = dir
               THEN ExpandFrom(s, try_pos, try_pos_distance, i + 1)
               ELSE IF NeighborOpen(s.w, s.h, s.wl, s.dist, neighbor)
                    THEN ExpandFrom(
                           [s EXCEPT
                              !.q = IF Len(s.q) < s.w * s.h
                                    THEN Append(s.q, neighbor) ELSE s.q,
                              !.pushed = Append(s.pushed, neighbor),
                              !.dist[neighbor] = (try_pos_distance + 1) % 256,
                              !.step[neighbor] = Neg(dir)],
                           try_pos, try_pos_distance, i + 1)
                    ELSE ExpandFrom(s, try_pos, try_pos_distance, i + 1)
            : s \in {st}} : TRUE

\* lines 55-59: one turn of the backtrack loop, if its condition holds
BacktrackTurn(back, origin, step) ==
    IF back.path_end # origin /\ ~is_full(back.path_to_start)
    THEN [path_end |-> AddDir(back.path_end, step[back.path_end]),
          path_to_start |->
              add_step(back.path_to_start, step[back.path_end]).path]
    ELSE back

\* up to n turns of the backtrack loop, the first half of them and then the
\* second
RECURSIVE BacktrackTurns(_, _, _, _)
BacktrackTurns(back, origin, step, n) ==
    CHOOSE ended \in
        {IF b.path_end = origin \/ is_full(b.path_to_start) THEN b
         ELSE IF n <= 1 THEN BacktrackTurn(b, origin, step)
         ELSE BacktrackTurns(BacktrackTurns(b, origin, step, n \div 2),
                             origin, step, n - (n \div 2))
         : b \in {back}} : TRUE

\* lines 54-60: walk the steps back until `from` or until the path is full,
\* which it is after PathCapacity turns at the latest
Backtrack(path_end, path_to_start, origin, step) ==
    BacktrackTurns([path_end |-> path_end, path_to_start |-> path_to_start],
                   origin, step, 4 * QUAD_CAPACITY)

\* line 53: this position ends the search
IsHit(dsts, wl, try_pos) == get(dsts, try_pos) /\ ~get(wl, try_pos)

\* the destination test of the five-argument form that brain.rs calls: in the
\* mask, and allow_wall_destination or not blocked
IsHitAllowing(dsts, wl, try_pos, allow) ==
    IF allow THEN get(dsts, try_pos) ELSE IsHit(dsts, wl, try_pos)

\* find_path_to_any (39-91) from a try list to its return, for positions on
\* the grid: None or the path
RECURSIVE SearchFrom(_, _, _, _)
SearchFrom(st, origin, dsts, allow) ==
    IF st.q = <<>>
    THEN None
    ELSE LET try_pos_index == MinIndex(st.q, st.dist)
             try_pos == st.q[try_pos_index]
         IN IF IsHitAllowing(dsts, st.wl, try_pos, allow)
            THEN LET back == Backtrack(try_pos, PathDefault, origin, st.step)
                 IN IF back.path_end = origin
                    THEN Some(reverse(back.path_to_start))
                    ELSE None
            ELSE SearchFrom(
                   ExpandFrom([st EXCEPT !.q = SwapRemove(st.q, try_pos_index)],
                              try_pos, st.dist[try_pos], 1),
                   origin, dsts, allow)

\* what find_path_to_any(origin, dsts, wl, arena) returns, origin on the grid
FindPathToAny(origin, dsts, w, h, wl) ==
    SearchFrom([q |-> <<origin>>,
                dist |-> ZeroedDistances(w, h),
                step |-> ZeroedSteps(w, h),
                w |-> w, h |-> h, wl |-> wl, pushed |-> <<origin>>],
               origin, dsts, FALSE)

\* what find_path_to(origin, to, wl, arena) returns, origin and to on the grid
FindPathTo(origin, to, w, h, wl) == FindPathToAny(origin, {to}, w, h, wl)

\* the origins a call is made with: every tile and one position off the grid
\* on the left, on the right and below
SearchOrigins(w, h) == Tiles(w, h) \cup {<<-1, 0>>, <<w, 0>>, <<0, h>>}

\* lines 33-38: the scratch allocations and the push of `from`
StartSearch(f, dsts, single, allow) ==
    /\ from' = f
    /\ allow_wall_destination' = allow
    /\ destinations' = dsts
    /\ single_destination' = single
    /\ try_positions' = <<f>>
    /\ shortest_distance_to_pos' = ZeroedDistances(width, height)
    /\ step_to_previous_in_path' = ZeroedSteps(width, height)
    /\ pf_pc' = "search"
    /\ pushed' = <<f>>
    /\ UNCHANGED <<width, height, walls, pf_result>>

\* find_path_to (16-25): a destination grid with the one bit `to`
find_path_to ==
    /\ pf_pc = "idle"
    /\ \E f \in SearchOrigins(width, height), to \in Tiles(width, height) :
          StartSearch(f, {to}, TRUE, FALSE)
    /\ UNCHANGED <<brokerVars, brainVars, unitVars>>

find_path_to_any ==
    /\ pf_pc = "idle"
    /\ \E f \in SearchOrigins(width, height),
          dsts \in SubsetsUpTo(Tiles(width, height), MaxDestinations) :
          StartSearch(f, dsts, FALSE, FALSE)
    /\ UNCHANGED <<brokerVars, brainVars, unitVars>>

\* find_path_to_any as brain.rs calls it, with allow_wall_destination
find_path_to_any_allowing ==
    /\ pf_pc = "idle"
    /\ \E f \in SearchOrigins(width, height),
          dsts \in SubsetsUpTo(Tiles(width, height), MaxDestinations),
          allow \in BOOLEAN :
          StartSearch(f, dsts, FALSE, allow)
    /\ UNCHANGED <<brokerVars, brainVars, unitVars>>

\* the position the loop turn takes from the try list (40-50)
TryPos == try_positions[MinIndex(try_positions, shortest_distance_to_pos)]

\* lines 42 and 53 with a position off the grid: shortest_distance_to_pos is
\* indexed at x + y * width, out of range or at the cell of another tile, and
\* then BitGrid::get asserts that the position is in bounds
SearchPanics ==
    /\ pf_pc = "search"
    /\ try_positions # <<>>
    /\ ~in_bounds(width, height, TryPos)
    /\ pf_pc' = "panic"
    /\ UNCHANGED <<width, height, walls, destinations, from, single_destination,
                   allow_wall_destination, try_positions,
                   shortest_distance_to_pos, step_to_previous_in_path, pf_result,
                   pushed>>
    /\ UNCHANGED <<brokerVars, brainVars, unitVars>>

\* one turn of the while loop that ends at line 53-66
SearchHit ==
    /\ pf_pc = "search"
    /\ try_positions # <<>>
    /\ in_bounds(width, height, TryPos)
    /\ LET try_pos == try_positions[MinIndex(try_positions, shortest_distance_to_pos)]
           back == Backtrack(try_pos, PathDefault, from, step_to_previous_in_path)
       IN /\ IsHitAllowing(destinations, walls, try_pos, allow_wall_destination)
          /\ pf_result' = IF back.path_end = from
                          THEN Some(reverse(back.path_to_start))
                          ELSE None
    /\ pf_pc' = "done"
    /\ UNCHANGED <<width, height, walls, destinations, from, single_destination,
                   allow_wall_destination,
                   try_positions, shortest_distance_to_pos, step_to_previous_in_path,
                   pushed>>
    /\ UNCHANGED <<brokerVars, brainVars, unitVars>>

\* one turn of the while loop that goes through lines 68-88
SearchExpand ==
    /\ pf_pc = "search"
    /\ try_positions # <<>>
    /\ in_bounds(width, height, TryPos)
    /\ LET try_pos_index == MinIndex(try_positions, shortest_distance_to_pos)
           try_pos == try_positions[try_pos_index]
           try_pos_distance == shortest_distance_to_pos[try_pos]
           st == ExpandFrom([q |-> SwapRemove(try_positions, try_pos_index),
                             dist |-> shortest_distance_to_pos,
                             step |-> step_to_previous_in_path,
                             w |-> width, h |-> height, wl |-> walls,
                             pushed |-> pushed],
                            try_pos, try_pos_distance, 1)
       IN /\ ~IsHitAllowing(destinations, walls, try_pos, allow_wall_destination)
          /\ try_positions' = st.q
          /\ shortest_distance_to_pos' = st.dist
          /\ step_to_previous_in_path' = st.step
          /\ pushed' = st.pushed
    /\ UNCHANGED <<width, height, walls, destinations, from, single_destination,
                   allow_wall_destination, pf_pc, pf_result>>
    /\ UNCHANGED <<brokerVars, brainVars, unitVars>>

\* lines 39 and 91: the try list ran empty
SearchExhausted ==
    /\ pf_pc = "search"
    /\ try_positions = <<>>
    /\ pf_result' = None
    /\ pf_pc' = "done"
    /\ UNCHANGED <<width, height, walls, destinations, from, single_destination,
                   allow_wall_destination,
                   try_positions, shortest_distance_to_pos, step_to_previous_in_path,
                   pushed>>
    /\ UNCHANGED <<brokerVars, brainVars, unitVars>>

\* --------------------------------------- NotificationSet (notifications.rs)
MAGMA == 1
ENERGY == 2
OXYGEN == 3
ENERGY_GENERATOR == 1
OXYGEN_GENERATOR == 2

\* brain.rs 26-30
HaulDescription(resource, amount, destination) ==
    [resource |-> resource, amount |-> amount, destination |-> destination]

\* Result<NotificationId, T>
Ok(id) == [ok |-> TRUE, val |-> id]
Err(data) == [ok |-> FALSE, val |-> data]

LiveIds(ns) == {ns[i][1] : i \in 1..Len(ns)}

\* iter().position(|(id_, _)| *id_ == id.0): 0 when there is none
RECURSIVE PositionFrom(_, _, _)
PositionFrom(ns, id, i) ==
    IF i > Len(ns) THEN 0
    ELSE IF ns[i][1] = id THEN i ELSE PositionFrom(ns, id, i + 1)

Position(ns, id) == PositionFrom(ns, id, 1)

\* mutant: the id counter is advanced also when the push is rejected
NotifyCountingRejected(ns, counter, cap, data) ==
    IF Len(ns) >= cap
    THEN [ns |-> ns, counter |-> counter + 1, ret |-> Err(data)]
    ELSE [ns |-> Append(ns, <<counter, data>>),
          counter |-> counter + 1,
          ret |-> Ok(counter)]

\* mutant: the id counter is never advanced
NotifySameId(ns, counter, cap, data) ==
    IF Len(ns) >= cap
    THEN [ns |-> ns, counter |-> counter, ret |-> Err(data)]
    ELSE [ns |-> Append(ns, <<counter, data>>), counter |-> counter, ret |-> Ok(counter)]

\* NotificationSet::notify (19-26); the u32 counter stays below MaxIds here,
\* far from the point where it would wrap
NotifyResult(ns, counter, cap, data) ==
    IF Len(ns) >= cap
    THEN [ns |-> ns, counter |-> counter, ret |-> Err(data)]
    ELSE [ns |-> Append(ns, <<counter, data>>),
          counter |-> counter + 1,
          ret |-> Ok(counter)]

\* NotificationSet::check (28-35)
CheckResult(ns, id) == \E i \in 1..Len(ns) : ns[i][1] = id

\* mutant: the last entry is popped without the swap
RemoveLast(ns, id) ==
    LET index == Position(ns, id)
    IN IF index = 0
       THEN [ns |-> ns, ret |-> None]
       ELSE [ns |-> SubSeq(ns, 1, Len(ns) - 1), ret |-> Some(ns[Len(ns)][2])]

\* mutant: the description is handed out and the entry is kept
RemoveKeeping(ns, id) ==
    LET index == Position(ns, id)
    IN IF index = 0
       THEN [ns |-> ns, ret |-> None]
       ELSE [ns |-> ns, ret |-> Some(ns[index][2])]

\* NotificationSet::remove (43-52)
RemoveResult(ns, id) ==
    LET index == Position(ns, id)
        last_index == Len(ns)
    IN IF index = 0
       THEN [ns |-> ns, ret |-> None]
       ELSE LET swapped == [ns EXCEPT ![index] = ns[last_index],
                                      ![last_index] = ns[index]]
            IN [ns |-> SubSeq(swapped, 1, last_index - 1),
                ret |-> Some(swapped[last_index][2])]

\* NotificationSet::get_mut (54-60) with the caller's write through the
\* reference: the description of the entry becomes `data`
GetMutWrite(ns, id, data) ==
    LET index == Position(ns, id)
    IN IF index = 0 THEN ns ELSE [ns EXCEPT ![index] = <<ns[index][1], data>>]

\* the descriptions handed to the broker in SpecBroker
BrokerDescriptions ==
    {HaulDescription(MAGMA, a, <<ENERGY_GENERATOR, <<0, 0>>>>) : a \in 1..MaxAmount}

PathIdle ==
    /\ width = 1
    /\ height = 1
    /\ walls = {}
    /\ destinations = {}
    /\ from = <<0, 0>>
    /\ single_destination = FALSE
    /\ allow_wall_destination = FALSE
    /\ try_positions = <<>>
    /\ shortest_distance_to_pos = ZeroedDistances(1, 1)
    /\ step_to_previous_in_path = ZeroedSteps(1, 1)
    /\ pf_pc = "idle"
    /\ pf_result = None
    /\ pushed = <<>>

notify(data) ==
    /\ id_counter < MaxIds
    /\ LET r == NotifyResult(notifications, id_counter, capacity, data)
       IN /\ notifications' = r.ns
          /\ id_counter' = r.counter
          /\ last_call' = [op |-> "notify", arg |-> data, ret |-> r.ret, after |-> None]
          /\ issued' = IF r.ret.ok THEN issued \cup {r.ret.val} ELSE issued
    /\ UNCHANGED <<capacity, claimed>>
    /\ UNCHANGED <<pathVars, brainVars, unitVars>>

check(id) ==
    /\ last_call' = [op |-> "check", arg |-> id,
                     ret |-> CheckResult(notifications, id), after |-> None]
    /\ UNCHANGED <<notifications, id_counter, capacity, issued, claimed>>
    /\ UNCHANGED <<pathVars, brainVars, unitVars>>

remove(id) ==
    /\ LET r == RemoveResult(notifications, id)
       IN /\ notifications' = r.ns
          /\ last_call' =
                [op |-> "remove", arg |-> id, ret |-> r.ret,
                 after |-> IF last_call.op = "notify" /\ last_call.ret = Ok(id)
                           THEN Some(last_call.arg) ELSE None]
          /\ claimed' = IF r.ret # None THEN claimed \cup {id} ELSE claimed
    /\ UNCHANGED <<id_counter, capacity, issued>>
    /\ UNCHANGED <<pathVars, brainVars, unitVars>>

get_mut(id, data) ==
    /\ notifications' = GetMutWrite(notifications, id, data)
    /\ last_call' = [op |-> "get_mut", arg |-> id,
                     ret |-> CheckResult(notifications, id), after |-> None]
    /\ UNCHANGED <<id_counter, capacity, issued, claimed>>
    /\ UNCHANGED <<pathVars, brainVars, unitVars>>

\* NotificationSet::new (12-17)
InitBroker ==
    /\ notifications = <<>>
    /\ id_counter = 0
    /\ capacity = BrokerCapacity
    /\ last_call = [op |-> "new", arg |-> 0, ret |-> None, after |-> None]
    /\ issued = {}
    /\ claimed = {}
    /\ PathIdle
    /\ BrainIdle
    /\ UnitIdle

NextBroker ==
    \/ \E data \in BrokerDescriptions : notify(data)
    \/ \E id \in 0..MaxIds : check(id)
    \/ \E id \in 0..MaxIds : remove(id)
    \/ \E id \in 0..MaxIds, data \in BrokerDescriptions : get_mut(id, data)

SpecBroker == InitBroker /\ [][NextBroker]_vars

\* C3: no two live entries share an id, and a successful notify never
\* returns an id that an earlier notify returned.
C3_IdsNeverReused ==
    [][/\ \A i, j \in 1..Len(notifications') :
             notifications'[i][1] = notifications'[j][1] => i = j
       /\ (last_call'.op = "notify" /\ last_call'.ret.ok)
            => last_call'.ret.val \notin issued]_vars

C3_Witness ==
    /\ last_call.op = "notify"
    /\ last_call.ret.ok
    /\ claimed # {}
    /\ Len(notifications) = capacity

C5_NotifyThenRemove ==
    (last_call.op = "remove" /\ last_call.after # None)
    => /\ last_call.ret = last_call.after
       /\ ~CheckResult(notifications, last_call.arg)

C5_Witness ==
    /\ last_call.op = "remove"
    /\ last_call.after # None
    /\ last_call.ret = last_call.after
    /\ Len(notifications) >= 1

\* C6: notify on a broker that holds `capacity` entries returns the rejected
\* description as the error value and leaves entries and id counter as they were.
C6_RejectedNotify ==
    [][(Len(notifications) >= capacity /\ last_call'.op = "notify")
         => /\ last_call'.ret = Err(last_call'.arg)
            /\ notifications' = notifications
            /\ id_counter' = id_counter]_vars

C6_Witness ==
    /\ last_call.op = "notify"
    /\ ~last_call.ret.ok
    /\ Len(notifications) = capacity
    /\ capacity > 0

\* C7: remove(id) of a live id drops exactly that entry and returns its
\* description, every other (id, description) pair stays; remove(id) of an
\* id that is not live returns none and changes nothing.
C7_RemoveFrame ==
    [][last_call'.op = "remove"
         => LET id == last_call'.arg
                before == {notifications[i] : i \in 1..Len(notifications)}
                after == {notifications'[i] : i \in 1..Len(notifications')}
            IN IF id \in LiveIds(notifications)
               THEN /\ Len(notifications') = Len(notifications) - 1
                    /\ \E e \in before :
                          /\ e[1] = id
                          /\ last_call'.ret = Some(e[2])
                          /\ after = before \ {e}
               ELSE /\ last_call'.ret = None
                    /\ notifications' = notifications
                    /\ id_counter' = id_counter]_vars

C7_Witness ==
    /\ last_call.op = "remove"
    /\ last_call.ret # None
    /\ Len(notifications) >= 1
    /\ last_call.arg < notifications[1][1]

BrokerIdle ==
    /\ notifications = <<>>
    /\ id_counter = 0
    /\ capacity = 0
    /\ last_call = [op |-> "new", arg |-> 0, ret |-> None, after |-> None]
    /\ issued = {}
    /\ claimed = {}

InitPath ==
    /\ width = GridW
    /\ height = GridH
    /\ walls \in SubsetsUpTo(Tiles(GridW, GridH), MaxWalls)
    /\ destinations = {}
    /\ from = <<0, 0>>
    /\ single_destination = FALSE
    /\ allow_wall_destination = FALSE
    /\ try_positions = <<>>
    /\ shortest_distance_to_pos = ZeroedDistances(GridW, GridH)
    /\ step_to_previous_in_path = ZeroedSteps(GridW, GridH)
    /\ pf_pc = "idle"
    /\ pf_result = None
    /\ pushed = <<>>
    /\ BrokerIdle
    /\ BrainIdle
    /\ UnitIdle

NextPath ==
    \/ find_path_to
    \/ find_path_to_any
    \/ SearchHit
    \/ SearchExpand
    \/ SearchExhausted
    \/ SearchPanics

SpecPath == InitPath /\ [][NextPath]_vars

\* the search as brain.rs calls it
NextWallDest ==
    \/ find_path_to_any_allowing
    \/ SearchHit
    \/ SearchExpand
    \/ SearchExhausted
    \/ SearchPanics

SpecWallDest == InitPath /\ [][NextWallDest]_vars

\* ------------------------------------------------------- reference distance
\* The 4-neighbour graph distance over the tiles that are not blocked, by
\* layers; -1 when `to` cannot be reached.
RECURSIVE LayerDistance(_, _, _, _, _, _)
LayerDistance(w, h, wl, frontier, seen, to) ==
    IF to \in frontier THEN 0
    ELSE LET next == {n \in Tiles(w, h) :
                        /\ n \notin seen
                        /\ n \notin wl
                        /\ \E t \in frontier, d \in Directions : AddDir(t, d) = n}
         IN IF next = {} THEN -1
            ELSE LET rest == LayerDistance(w, h, wl, next, seen \cup next, to)
                 IN IF rest = -1 THEN -1 ELSE rest + 1

GraphDistance(w, h, wl, f, to) == LayerDistance(w, h, wl, {f}, {f}, to)

\* the tiles visited by taking the steps of a path in order from `origin`
RECURSIVE Walk(_, _)
Walk(origin, dirs) ==
    IF dirs = <<>> THEN <<>>
    ELSE <<AddDir(origin, Head(dirs))>> \o Walk(AddDir(origin, Head(dirs)), Tail(dirs))

EndOf(origin, dirs) ==
    IF dirs = <<>> THEN origin ELSE Walk(origin, dirs)[Len(dirs)]

\* C1: for walkable `from` and `to` with `to` reachable, find_path_to returns
\* a path whose length is the 4-neighbour graph distance from `from` to `to`.
C1_ShortestPath ==
    (/\ pf_pc = "done"
     /\ single_destination
     /\ from \notin walls
     /\ destinations \cap walls = {}
     /\ \E to \in destinations :
           GraphDistance(width, height, walls, from, to) >= 0)
    => /\ pf_result # None
       /\ \E to \in destinations :
             len(Unwrap(pf_result)) = GraphDistance(width, height, walls, from, to)

\* C10: the steps of a returned path, taken from `from`, visit only in-bounds
\* tiles that are not blocked and end on a tile of the destination mask.
C10_PathIsWalkable ==
    (pf_pc = "done" /\ pf_result # None)
    => LET visited == Walk(from, Steps(Unwrap(pf_result)))
       IN /\ \A i \in 1..Len(visited) :
                in_bounds(width, height, visited[i]) /\ ~get(walls, visited[i])
          /\ get(destinations, EndOf(from, Steps(Unwrap(pf_result))))

C10_Witness ==
    /\ pf_pc = "done"
    /\ pf_result # None
    /\ len(Unwrap(pf_result)) >= 2
    /\ walls # {}

\* --------------------------------------------------------- Brain (brain.rs)
MAX_GOALS == 8
MAX_OXYGEN == 24
LOW_OXYGEN_THRESHOLD == 9
LOW_MORALE_THRESHOLD == 9

\* bounds of the world the brains think in
NumBrains == 1
BrainW == 3
WaitTicks == 1
MaxPathLen == 1
BrainIds == 3
BacklogIds == 6
MaxJobChanges == 3
MaxDetourLen == 2
DetourIds == 1

\* Occupation (70-75)
Idle == [kind |-> "Idle"]
Hauler == [kind |-> "Hauler"]
Operator(job) == [kind |-> "Operator", job |-> job]

OCCUPATION_LIST ==
    <<Idle, Hauler, Operator(ENERGY_GENERATOR), Operator(OXYGEN_GENERATOR)>>

\* Occupation::next (109-116), indices from 1
OccupationNext(occ) ==
    LET idx == CHOOSE i \in 1..Len(OCCUPATION_LIST) : OCCUPATION_LIST[i] = occ
    IN OCCUPATION_LIST[(idx % Len(OCCUPATION_LIST)) + 1]

\* Occupation::previous (99-107)
OccupationPrevious(occ) ==
    LET idx == CHOOSE i \in 1..Len(OCCUPATION_LIST) : OCCUPATION_LIST[i] = occ
        length == Len(OCCUPATION_LIST)
    IN OCCUPATION_LIST[((idx - 1 + length - 1) % length) + 1]

\* Goal (33-53). A tick stamp is held relative to the current tick: 0 is the
\* current tick, 1 any earlier tick; update_goals only compares it with
\* current_tick for equality (693).
Work(haul_wait_timeout, job) ==
    [type |-> "Work", haul_wait_timeout |-> haul_wait_timeout, job |-> job]

Haul(description) == [type |-> "Haul", description |-> description]

FollowPath(origin, path) == [type |-> "FollowPath", from |-> origin, path |-> path]

Relax(relax_start_tick, walk_aabb) ==
    [type |-> "Relax", relax_start_tick |-> relax_start_tick, walk_aabb |-> walk_aabb]

RefillOxygen == [type |-> "RefillOxygen"]

\* Brain::new (130-139) with the wait_ticks that Game::new writes afterwards
BrainNew(wait_ticks) ==
    [goal_stack |-> <<>>,
     job |-> Idle,
     max_haul_amount |-> 2,
     wait_ticks |-> wait_ticks,
     ticks_without_goal |-> 0,
     has_relaxed |-> FALSE]

\* JobStationVariant::details (game_object.rs 108-126)
Details(variant) ==
    IF variant = ENERGY_GENERATOR
    THEN [resource_variant |-> MAGMA, resource_amount |-> 3]
    ELSE [resource_variant |-> ENERGY, resource_amount |-> 1]

\* the job stations of the scene, in storage order: one energy generator
JobStations == <<[variant |-> ENERGY_GENERATOR, position |-> <<0, 0>>]>>

Abs(n) == IF n < 0 THEN -n ELSE n

manhattan_distance(a, b) == Abs(a[1] - b[1]) + Abs(a[2] - b[2])

\* the tiles a character can stand on: job stations are not walkable
Positions(w, h) ==
    Tiles(w, h) \ {JobStations[i].position : i \in 1..Len(JobStations)}

\* the sequences of at most n directions
RECURSIVE DirSeqs(_)
DirSeqs(n) ==
    IF n = 0 THEN {<<>>}
    ELSE DirSeqs(n - 1) \cup
         {Append(s, d) : s \in {t \in DirSeqs(n - 1) : Len(t) = n - 1}, d \in Directions}

\* what a path search from `origin` can return in this world: none, or a
\* path of at most n steps that stays in bounds
PathResults(w, h, origin, n) ==
    {None} \cup
    {Some(AddSteps(PathDefault, s)) :
        s \in {t \in DirSeqs(n) :
                 \A i \in 1..Len(t) : in_bounds(w, h, Walk(origin, t)[i])}}

\* what find_path_to can return for the way from `origin` to the tile `to`:
\* none, or a path that ends on `to` (pathfinding.rs 53-62)
PathResultsTo(w, h, origin, to, n) ==
    {p \in PathResults(w, h, origin, n) :
        p = None \/ EndOf(origin, Steps(Unwrap(p))) = to}

\* ArrayVec::push on the goal stack: aborts the program when the stack is full
Push(c, goal) ==
    IF c.panicked THEN c
    ELSE IF Len(c.brain.goal_stack) >= MAX_GOALS
         THEN [c EXCEPT !.panicked = TRUE]
         ELSE [c EXCEPT !.brain.goal_stack = Append(@, goal)]

\* the order in which the seeding loop pops hauls_by_distance (222-231):
\* nearest destination first; sort_unstable leaves the order of equal
\* distances open, `ties_reversed` picks between the two index orders
RECURSIVE PopOrder(_, _, _, _)
PopOrder(ns, current_position, ties_reversed, S) ==
    IF S = {} THEN <<>>
    ELSE LET dist(i) == manhattan_distance(ns[i][2].destination[2], current_position)
             first == CHOOSE i \in S : \A j \in S :
                         \/ dist(i) < dist(j)
                         \/ dist(i) = dist(j) /\ (IF ties_reversed THEN i >= j ELSE i <= j)
         IN <<ns[first][1]>> \o PopOrder(ns, current_position, ties_reversed, S \ {first})

hauls_by_distance(ns, current_position, ties_reversed) ==
    PopOrder(ns, current_position, ties_reversed, 1..Len(ns))

\* the two reachability probes of the seeding loop (234-255) read only the
\* destination and the resource of an entry
ProbeKey(description) == <<description.destination, description.resource>>

ProbeKeys(ns) == {ProbeKey(ns[i][2]) : i \in 1..Len(ns)}

\* mutant: a split leaves the advertised amount as it was
AcceptJobKeepingAmount(c, notif_id) ==
    LET description == c.ns[Position(c.ns, notif_id)][2]
        noted == [c EXCEPT !.accepted =
                     Append(@, [id |-> notif_id, amount |-> description.amount])]
    IN IF description.amount > c.brain.max_haul_amount
       THEN Push(noted, Haul(HaulDescription(description.resource,
                                             c.brain.max_haul_amount,
                                             description.destination)))
       ELSE Push([noted EXCEPT !.ns = RemoveResult(c.ns, notif_id).ns],
                 Haul(description))

\* accept the job (257-271)
AcceptJob(c, notif_id) ==
    LET description == c.ns[Position(c.ns, notif_id)][2]
        noted == [c EXCEPT !.accepted =
                     Append(@, [id |-> notif_id, amount |-> description.amount])]
    IN IF description.amount > c.brain.max_haul_amount
       THEN Push([noted EXCEPT !.ns =
                     GetMutWrite(c.ns, notif_id,
                                 [description EXCEPT
                                     !.amount = @ - c.brain.max_haul_amount])],
                 Haul(HaulDescription(description.resource,
                                      c.brain.max_haul_amount,
                                      description.destination)))
       ELSE LET r == RemoveResult(c.ns, notif_id)
            IN Push([noted EXCEPT !.ns = r.ns], Haul(Unwrap(r.ret)))

\* the loop over hauls_by_distance (231-273); `reachable` holds the probe
\* keys for which both path probes find a path
RECURSIVE SeedHauls(_, _, _)
SeedHauls(c, order, reachable) ==
    IF order = <<>> \/ c.panicked THEN c
    ELSE LET notif_id == Head(order)
             index == Position(c.ns, notif_id)
         IN IF index = 0 \/ ProbeKey(c.ns[index][2]) \notin reachable
            THEN SeedHauls(c, Tail(order), reachable)
            ELSE SeedHauls(AcceptJob(c, notif_id), Tail(order), reachable)

\* occupation-based seeding (199-276)
Seed(c, current_position, demoralized, reachable, ties_reversed) ==
    IF c.brain.goal_stack # <<>> \/ demoralized THEN c
    ELSE IF c.brain.job.kind = "Operator"
         THEN Push(c, Work(None, c.brain.job.job))
         ELSE IF c.brain.job.kind = "Hauler"
              THEN SeedHauls(c,
                             hauls_by_distance(c.ns, current_position, ties_reversed),
                             reachable)
              ELSE c

\* mutant: the interrupt does not look for a queued RefillOxygen
SurvivalInterruptUnguarded(c, current_position, oxygen, oxygen_path) ==
    IF oxygen <= LOW_OXYGEN_THRESHOLD /\ oxygen_path # None
    THEN Push(Push(c, RefillOxygen),
              FollowPath(current_position, Unwrap(oxygen_path)))
    ELSE c

\* the oxygen interrupt (280-300); oxygen_path is what the search for
\* unreserved oxygen returned
SurvivalInterrupt(c, current_position, oxygen, oxygen_path) ==
    IF /\ oxygen <= LOW_OXYGEN_THRESHOLD
       /\ \A i \in 1..Len(c.brain.goal_stack) :
             c.brain.goal_stack[i].type # "RefillOxygen"
       /\ oxygen_path # None
    THEN Push(Push(c, RefillOxygen),
              FollowPath(current_position, Unwrap(oxygen_path)))
    ELSE c

\* lines 308-317: the bounding box stored in the Relax goal
WalkAabb(current_position, w, h) ==
    LET min(a, b) == IF a < b THEN a ELSE b
    IN <<<<current_position[1] - 5, current_position[2] - 5>>,
         <<min(current_position[1] + 5, w - 1),
           min(current_position[2] + 5, h - 1)>>>>

\* mutant: the idle counter has to pass wait_ticks
RelaxFallbackLate(c, current_position, demoralized, w, h) ==
    IF c.brain.goal_stack # <<>> THEN c
    ELSE IF c.brain.ticks_without_goal > c.brain.wait_ticks \/ demoralized
         THEN Push(c, Relax(0, WalkAabb(current_position, w, h)))
         ELSE [c EXCEPT !.brain.ticks_without_goal = @ + 1]

\* the relax fallback (304-322)
RelaxFallback(c, current_position, demoralized, w, h) ==
    IF c.brain.goal_stack # <<>> THEN c
    ELSE IF c.brain.ticks_without_goal >= c.brain.wait_ticks \/ demoralized
         THEN Push(c, Relax(0, WalkAabb(current_position, w, h)))
         ELSE [c EXCEPT !.brain.ticks_without_goal = @ + 1]

\* what executing the top goal leaves behind (324-326)
Outcome(c, goal_not_acheivable, goal_finished, new_instrumental_goal) ==
    [c |-> c,
     goal_not_acheivable |-> goal_not_acheivable,
     goal_finished |-> goal_finished,
     new_instrumental_goal |-> new_instrumental_goal]

Top(c) == c.brain.goal_stack[Len(c.brain.goal_stack)]

SetTop(c, goal) == [c EXCEPT !.brain.goal_stack[Len(c.brain.goal_stack)] = goal]

\* the first job station of the wanted variant within working distance
\* (352-357), 0 when there is none
RECURSIVE StationInReach(_, _, _)
StationInReach(job, current_position, i) ==
    IF i > Len(JobStations) THEN 0
    ELSE IF /\ JobStations[i].variant = job
            /\ manhattan_distance(current_position, JobStations[i].position) < 2
         THEN i
         ELSE StationInReach(job, current_position, i + 1)

\* mutant: a request is brokered whether or not one is pending
StationCheckAsking(c, goal, station, stocked) ==
    IF station = 0 THEN [c |-> c, timeout |-> goal.haul_wait_timeout]
    ELSE IF stocked THEN [c |-> c, timeout |-> None]
    ELSE LET details == Details(JobStations[station].variant)
             description ==
                 HaulDescription(details.resource_variant,
                                 details.resource_amount,
                                 <<JobStations[station].variant,
                                   JobStations[station].position>>)
             r == NotifyResult(c.ns, c.counter, c.cap, description)
         IN [c |-> [c EXCEPT !.ns = r.ns, !.counter = r.counter],
             timeout |-> IF r.ret.ok
                         THEN Some(<<r.ret.val, c.brain.wait_ticks>>)
                         ELSE None]

\* the station check of a Work goal (346-393): c and the timeout after it;
\* `stocked` tells whether the station holds the amount its recipe needs
StationCheck(c, goal, station, stocked) ==
    IF station = 0 THEN [c |-> c, timeout |-> goal.haul_wait_timeout]
    ELSE IF stocked THEN [c |-> c, timeout |-> None]
    ELSE IF goal.haul_wait_timeout # None
         THEN [c |-> c, timeout |-> goal.haul_wait_timeout]
         ELSE LET details == Details(JobStations[station].variant)
                  description ==
                      HaulDescription(details.resource_variant,
                                      details.resource_amount,
                                      <<JobStations[station].variant,
                                        JobStations[station].position>>)
                  r == NotifyResult(c.ns, c.counter, c.cap, description)
              IN [c |-> [c EXCEPT !.ns = r.ns, !.counter = r.counter],
                  timeout |-> IF r.ret.ok
                              THEN Some(<<r.ret.val, c.brain.wait_ticks>>)
                              ELSE None]

\* not near a job station: get to work (418-448)
PathToWork(current_position, within_working_distance, station_path, o) ==
    IF within_working_distance THEN o
    ELSE IF station_path # None
         THEN [o EXCEPT !.new_instrumental_goal =
                   Some(FollowPath(current_position, Unwrap(station_path)))]
         ELSE [o EXCEPT !.goal_not_acheivable = TRUE]

\* Goal::Work (332-449)
ExecWork(c, current_position, demoralized, stocked, station_path) ==
    LET goal == Top(c)
        goal_finished ==
            ~(c.brain.job.kind = "Operator" /\ c.brain.job.job = goal.job)
        station == StationInReach(goal.job, current_position, 1)
        checked == StationCheck(c, goal, station, stocked)
        c1 == checked.c
        \* haul_wait_timeout.take() (396-416)
        taken ==
            IF checked.timeout = None
            THEN Outcome(SetTop(c1, Work(None, goal.job)),
                         demoralized, goal_finished, None)
            ELSE LET haul_id == Unwrap(checked.timeout)[1]
                     ticks_left == Unwrap(checked.timeout)[2]
                 IN IF ticks_left = 0
                    THEN IF CheckResult(c1.ns, haul_id)
                         THEN LET r == RemoveResult(c1.ns, haul_id)
                              IN Outcome(SetTop([c1 EXCEPT !.ns = r.ns],
                                                Work(None, goal.job)),
                                         demoralized, goal_finished,
                                         Some(Haul(Unwrap(r.ret))))
                         ELSE Outcome(SetTop(c1, Work(None, goal.job)),
                                      demoralized, goal_finished, None)
                    ELSE Outcome(SetTop(c1, Work(Some(<<haul_id, ticks_left - 1>>),
                                                 goal.job)),
                                 demoralized, goal_finished, None)
    IN PathToWork(current_position, station # 0, station_path, taken)

\* Goal::Haul (451-647). current_amount is what the character holds of the
\* resource after the pick-up (460-508); resource_path and destination_path
\* are what the two searches return. The drop-off (574-646) finds the
\* station the request names and leaves goal_finished set.
ExecHaul(c, current_position, current_amount, resource_path, destination_path) ==
    LET requested_amount == Top(c).description.amount
        acquired_at_once == current_amount >= requested_amount
        looked ==
            IF acquired_at_once THEN Outcome(c, FALSE, FALSE, None)
            ELSE IF resource_path # None
                 THEN Outcome(c, FALSE, FALSE,
                              Some(FollowPath(current_position, Unwrap(resource_path))))
                 ELSE IF current_amount > 0 THEN Outcome(c, FALSE, FALSE, None)
                      ELSE Outcome(c, TRUE, FALSE, None)
        resources_acquired ==
            \/ acquired_at_once
            \/ resource_path = None /\ current_amount > 0
    IN IF resources_acquired /\ destination_path # None
       THEN IF is_empty(Unwrap(destination_path))
            THEN [looked EXCEPT !.goal_finished = TRUE]
            ELSE [looked EXCEPT !.new_instrumental_goal =
                     Some(FollowPath(current_position, Unwrap(destination_path)))]
       ELSE looked

\* mutant: a cut path keeps its old anchor
ExecFollowPathKeepingAnchor(c, current_position, replanned) ==
    LET goal == Top(c)
        steps == Steps(goal.path)
        visited == Walk(goal.from, steps)
        hits == {i \in 1..Len(steps) : visited[i] = current_position}
    IN IF is_empty(goal.path) THEN Outcome(c, FALSE, TRUE, None)
       ELSE IF current_position = goal.from THEN Outcome(c, FALSE, FALSE, None)
       ELSE IF hits # {}
            THEN LET steps_progressed == CHOOSE i \in hits : \A j \in hits : j <= i
                     truncated_path ==
                         AddSteps(PathDefault,
                                  SubSeq(steps, steps_progressed + 1, Len(steps)))
                 IN Outcome(SetTop(c, FollowPath(goal.from, truncated_path)),
                            FALSE, FALSE, None)
            ELSE IF replanned # None
                 THEN Outcome(SetTop(c, FollowPath(current_position, Unwrap(replanned))),
                              FALSE, FALSE, None)
                 ELSE Outcome(c, TRUE, FALSE, None)

\* Goal::FollowPath (649-685); replanned is what find_path_to returns for the
\* way from current_position to the end of the path
ExecFollowPath(c, current_position, replanned) ==
    LET goal == Top(c)
        steps == Steps(goal.path)
        visited == Walk(goal.from, steps)
        hits == {i \in 1..Len(steps) : visited[i] = current_position}
    IN IF is_empty(goal.path) THEN Outcome(c, FALSE, TRUE, None)
       ELSE IF current_position = goal.from THEN Outcome(c, FALSE, FALSE, None)
       ELSE IF hits # {}
            THEN LET steps_progressed == CHOOSE i \in hits : \A j \in hits : j <= i
                     truncated_path ==
                         AddSteps(PathDefault,
                                  SubSeq(steps, steps_progressed + 1, Len(steps)))
                 IN Outcome(SetTop(c, FollowPath(current_position, truncated_path)),
                            FALSE, FALSE, None)
            ELSE IF replanned # None
                 THEN Outcome(SetTop(c, FollowPath(current_position, Unwrap(replanned))),
                              FALSE, FALSE, None)
                 ELSE Outcome(c, TRUE, FALSE, None)

\* Goal::Relax (687-708); relax_path is what find_path_to returns for the
\* way to the tile drawn from the hash
ExecRelax(c, current_position, relax_path) ==
    LET relaxed == [c EXCEPT !.brain.has_relaxed = TRUE]
    IN IF Top(c).relax_start_tick # 0 THEN Outcome(relaxed, FALSE, TRUE, None)
       ELSE IF relax_path # None
            THEN Outcome(relaxed, FALSE, FALSE,
                         Some(FollowPath(current_position, Unwrap(relax_path))))
            ELSE Outcome(relaxed, FALSE, FALSE, None)

\* u8::saturating_add
saturating_add(a, b) == IF a + b > 255 THEN 255 ELSE a + b

\* Goal::RefillOxygen (710-754); oxygen_found tells whether a stockpile next
\* to the character gave a unit of oxygen (711-733); the character's oxygen
\* is raised in either case (741-753)
ExecRefillOxygen(c, oxygen, oxygen_found) ==
    LET breathed == [c EXCEPT !.oxygen = saturating_add(@, 1)]
    IN IF ~oxygen_found THEN Outcome(breathed, TRUE, FALSE, None)
       ELSE Outcome(breathed, FALSE, oxygen + 1 >= MAX_OXYGEN, None)

\* the match on the top goal (331-755); `flag` is `stocked` for Work and
\* `oxygen_found` for RefillOxygen, path_a and path_b the search results
Execute(c, current_position, oxygen, demoralized, flag, current_amount, path_a, path_b) ==
    LET type == Top(c).type
    IN IF type = "Work" THEN ExecWork(c, current_position, demoralized, flag, path_a)
       ELSE IF type = "Haul"
            THEN ExecHaul(c, current_position, current_amount, path_a, path_b)
       ELSE IF type = "FollowPath" THEN ExecFollowPath(c, current_position, path_a)
       ELSE IF type = "Relax" THEN ExecRelax(c, current_position, path_a)
       ELSE ExecRefillOxygen(c, oxygen, flag)

Pop(c) == [c EXCEPT !.brain.goal_stack = SubSeq(@, 1, Len(@) - 1)]

\* mutant: a subgoal is pushed before the flags are looked at
ResolvePushFirst(o) ==
    IF o.new_instrumental_goal # None
    THEN IF Len(o.c.brain.goal_stack) >= MAX_GOALS
         THEN [o.c EXCEPT !.brain.goal_stack = <<>>]
         ELSE [o.c EXCEPT !.brain.goal_stack =
                   Append(@, Unwrap(o.new_instrumental_goal))]
    ELSE IF o.goal_not_acheivable \/ o.goal_finished THEN Pop(o.c)
    ELSE o.c

\* the resolution (759-773): try_push, and clear when the stack is full
Resolve(o) ==
    IF o.goal_not_acheivable THEN Pop(o.c)
    ELSE IF o.goal_finished THEN Pop(o.c)
    ELSE IF o.new_instrumental_goal # None
         THEN IF Len(o.c.brain.goal_stack) >= MAX_GOALS
              THEN [o.c EXCEPT !.brain.goal_stack = <<>>]
              ELSE [o.c EXCEPT !.brain.goal_stack =
                        Append(@, Unwrap(o.new_instrumental_goal))]
         ELSE o.c

\* the tile a FollowPath goal leads to (654-661)
LeadsTo(goal) == EndOf(goal.from, Steps(goal.path))

\* what one update_goals call read and decided: the stack when the top goal
\* was executed, whether the survival interrupt pushed, the values read from the scene and the path finder, the
\* stack after the execution and the three results of it (324-326)
Drawn(stack, interrupted, current_position, oxygen, oxygen_path, flag, current_amount, path_a, path_b, o) ==
    [stack |-> stack,
     interrupted |-> interrupted,
     current_position |-> current_position,
     oxygen |-> oxygen,
     oxygen_path |-> oxygen_path,
     flag |-> flag,
     current_amount |-> current_amount,
     path_a |-> path_a,
     path_b |-> path_b,
     executed_stack |-> o.c.brain.goal_stack,
     goal_not_acheivable |-> o.goal_not_acheivable,
     goal_finished |-> o.goal_finished,
     new_instrumental_goal |-> o.new_instrumental_goal]

\* mutant: a character out of oxygen is counted as idle
OutOfOxygenIdling(c) ==
    [c EXCEPT !.brain.goal_stack = <<>>, !.brain.ticks_without_goal = @ + 1]

\* out of oxygen (190-194): the stack is cleared and the call returns
OutOfOxygen(c) == [c EXCEPT !.brain.goal_stack = <<>>]

\* the oxygen and morale levels a think call can meet: empty, low, fine,
\* one short of full (game_object.rs 70-79)
OxygenLevels == {0, LOW_OXYGEN_THRESHOLD, LOW_OXYGEN_THRESHOLD + 1, MAX_OXYGEN - 1}

MoraleLevels == {LOW_MORALE_THRESHOLD, LOW_MORALE_THRESHOLD + 1}

\* the end of an update_goals call of brain next_brain: the brain, the
\* broker and the record of the call are stored and the think loop of
\* Game::tick moves on (lib.rs 653-662)
Commit(c, max_ids, executed, seeded, drawn) ==
    /\ c.counter <= max_ids
    /\ brains' = [brains EXCEPT ![next_brain] = c.brain]
    /\ notifications' = c.ns
    /\ id_counter' = c.counter
    /\ panicked' = c.panicked
    /\ last_think' = [brain |-> next_brain,
                      executed |-> executed,
                      seeded |-> seeded,
                      accepted |-> c.accepted,
                      oxygen |-> c.oxygen,
                      drawn |-> drawn]
    /\ next_brain' = next_brain + 1
    /\ UNCHANGED <<capacity, last_call, issued, claimed, job_changes>>
    /\ UNCHANGED <<pathVars, unitVars>>

\* Brain::update_goals (157-774) for the next brain of the think loop. The
\* scene and the path finder are read through the values drawn here: the
\* character's position, oxygen and morale, and per phase what the phase reads.
\* `scene` bounds the run: the ids the broker may issue and the positions,
\* oxygen and morale levels the calls can meet.
update_goals(scene) ==
    /\ ~panicked
    /\ next_brain < NumBrains
    /\ \E current_position \in scene.positions,
          oxygen \in scene.oxygen, morale \in scene.morale :
        LET b == brains[next_brain]
            c0 == [brain |-> b, ns |-> notifications, counter |-> id_counter,
                   cap |-> capacity, panicked |-> FALSE, accepted |-> <<>>,
                   oxygen |-> oxygen]
            demoralized == morale <= LOW_MORALE_THRESHOLD
            paths == PathResults(width, height, current_position, scene.path_len)
            seeding == b.goal_stack = <<>> /\ ~demoralized /\ b.job = Hauler
        IN IF oxygen = 0
           THEN Commit(OutOfOxygen(c0), scene.ids, None, <<>>, None)
           ELSE \E reachable \in (IF seeding THEN SUBSET ProbeKeys(notifications)
                                             ELSE {{}}),
                   ties_reversed \in (IF seeding /\ Len(notifications) > 1
                                      THEN BOOLEAN ELSE {FALSE}) :
                LET c1 == Seed(c0, current_position, demoralized, reachable, ties_reversed)
                    seeded == IF b.goal_stack = <<>> THEN c1.brain.goal_stack ELSE <<>>
                IN \E oxygen_path \in (IF oxygen <= LOW_OXYGEN_THRESHOLD
                                       THEN paths ELSE {None}) :
                   LET c2 == SurvivalInterrupt(c1, current_position, oxygen, oxygen_path)
                       c3 == RelaxFallback(c2, current_position, demoralized, width, height)
                   IN IF c3.panicked \/ c3.brain.goal_stack = <<>>
                      THEN Commit(c3, scene.ids, None, seeded, None)
                      ELSE LET type == Top(c3).type
                           IN \E flag \in (IF type \in {"Work", "RefillOxygen"}
                                           THEN BOOLEAN ELSE {FALSE}),
                                 current_amount \in (IF type = "Haul"
                                                     THEN 0..Top(c3).description.amount
                                                     ELSE {0}),
                                 path_a \in (IF type = "RefillOxygen" THEN {None}
                                             ELSE IF type = "FollowPath"
                                             THEN PathResultsTo(width, height,
                                                      current_position,
                                                      LeadsTo(Top(c3)), scene.path_len)
                                             ELSE paths),
                                 path_b \in (IF type = "Haul"
                                             THEN PathResultsTo(width, height,
                                                      current_position,
                                                      Top(c3).description.destination[2],
                                                      scene.path_len)
                                             ELSE {None}) :
                              LET o == Execute(c3, current_position, oxygen,
                                               demoralized, flag, current_amount,
                                               path_a, path_b)
                              IN Commit(Resolve(o), scene.ids, Some(Top(c3)), seeded,
                                        Some(Drawn(c3.brain.goal_stack,
                                                   c2.brain.goal_stack # c1.brain.goal_stack,
                                                   current_position,
                                                   oxygen, oxygen_path, flag,
                                                   current_amount, path_a, path_b, o)))

\* a Relax goal pushed in a tick that is over now started in an earlier tick
Aged(goal) ==
    IF goal.type = "Relax" THEN [goal EXCEPT !.relax_start_tick = 1] ELSE goal

\* the start of a tick of Game::tick (lib.rs 574-579) and, for the tick
\* before it, the oxygen and morale update that clears has_relaxed on every
\* hundredth tick (lib.rs 680-697)
tick(on_oxygen_and_morale_tick) ==
    /\ ~panicked
    /\ next_brain = NumBrains
    /\ brains' = [i \in DOMAIN brains |->
                    [brains[i] EXCEPT
                        !.goal_stack = [k \in 1..Len(@) |-> Aged(@[k])],
                        !.has_relaxed = IF on_oxygen_and_morale_tick THEN FALSE ELSE @]]
    /\ next_brain' = 0
    /\ last_think' = NoThink
    /\ UNCHANGED <<panicked, job_changes>>
    /\ UNCHANGED brokerVars
    /\ UNCHANGED <<pathVars, unitVars>>

\* the character menu changes an occupation between ticks (lib.rs 536-543)
set_job(brain_index, forward) ==
    /\ ~panicked
    /\ next_brain = NumBrains
    /\ job_changes < MaxJobChanges
    /\ job_changes' = job_changes + 1
    /\ brains' = [brains EXCEPT ![brain_index].job =
                     IF forward THEN OccupationNext(@) ELSE OccupationPrevious(@)]
    /\ last_think' = NoThink
    /\ UNCHANGED <<next_brain, panicked>>
    /\ UNCHANGED brokerVars
    /\ UNCHANGED <<pathVars, unitVars>>

\* Game::new (lib.rs 228-283) in a world of BrainW x 1 tiles
InitBrain ==
    /\ brains = [i \in 0..(NumBrains - 1) |-> BrainNew(WaitTicks)]
    /\ next_brain = NumBrains
    /\ panicked = FALSE
    /\ job_changes = 0
    /\ last_think = NoThink
    /\ notifications = <<>>
    /\ id_counter = 0
    /\ capacity = BacklogIds
    /\ last_call = [op |-> "new", arg |-> 0, ret |-> None, after |-> None]
    /\ issued = {}
    /\ claimed = {}
    /\ width = BrainW
    /\ height = 1
    /\ walls = {JobStations[i].position : i \in 1..Len(JobStations)}
    /\ destinations = {}
    /\ from = <<0, 0>>
    /\ single_destination = FALSE
    /\ allow_wall_destination = FALSE
    /\ try_positions = <<>>
    /\ shortest_distance_to_pos = ZeroedDistances(BrainW, 1)
    /\ step_to_previous_in_path = ZeroedSteps(BrainW, 1)
    /\ pf_pc = "idle"
    /\ pf_result = None
    /\ pushed = <<>>
    /\ UnitIdle

\* every position, oxygen and morale level, BrainIds ids
BrainScene ==
    [ids |-> BrainIds,
     path_len |-> MaxPathLen,
     positions |-> Positions(BrainW, 1),
     oxygen |-> OxygenLevels,
     morale |-> MoraleLevels]

\* a character that stays next to the station in good morale and never runs
\* out of oxygen, BacklogIds ids
BacklogScene ==
    [ids |-> BacklogIds,
     path_len |-> MaxPathLen,
     positions |-> {<<1, 0>>},
     oxygen |-> {LOW_OXYGEN_THRESHOLD, LOW_OXYGEN_THRESHOLD + 1},
     morale |-> {LOW_MORALE_THRESHOLD + 1}]

NextBrain ==
    \/ update_goals(BrainScene)
    \/ \E on_oxygen_and_morale_tick \in BOOLEAN : tick(on_oxygen_and_morale_tick)
    \/ \E brain_index \in 0..(NumBrains - 1), forward \in BOOLEAN :
          set_job(brain_index, forward)

SpecBrain == InitBrain /\ [][NextBrain]_vars

NextBacklog ==
    \/ update_goals(BacklogScene)
    \/ \E on_oxygen_and_morale_tick \in BOOLEAN : tick(on_oxygen_and_morale_tick)
    \/ \E brain_index \in 0..(NumBrains - 1), forward \in BOOLEAN :
          set_job(brain_index, forward)

SpecBacklog == InitBrain /\ [][NextBacklog]_vars

\* a character in good morale at every position and oxygen level, paths of
\* up to MaxDetourLen steps, DetourIds ids
DetourScene ==
    [ids |-> DetourIds,
     path_len |-> MaxDetourLen,
     positions |-> Positions(BrainW, 1),
     oxygen |-> OxygenLevels,
     morale |-> {LOW_MORALE_THRESHOLD + 1}]

NextDetour ==
    \/ update_goals(DetourScene)
    \/ \E on_oxygen_and_morale_tick \in BOOLEAN : tick(on_oxygen_and_morale_tick)
    \/ \E brain_index \in 0..(NumBrains - 1), forward \in BOOLEAN :
          set_job(brain_index, forward)

SpecDetour == InitBrain /\ [][NextDetour]_vars

\* C2: after any sequence of update_goals calls no goal stack holds more than
\* MAX_GOALS goals and no push on a goal stack has aborted the program.
C2_StackBounded ==
    /\ ~panicked
    /\ \A i \in DOMAIN brains : Len(brains[i].goal_stack) <= MAX_GOALS

\* C8: every entry a Hauler accepts in a call with an amount above its
\* max_haul_amount gives a Haul goal for max_haul_amount and stays live under
\* its id with the amount reduced by max_haul_amount, resource and
\* destination as they were; every entry accepted with an amount within the
\* cap is removed and its whole description is the Haul goal's.
C8_SplitOrWhole ==
    [][(last_think'.brain # -1 /\ ~panicked')
         => LET t == last_think'
                cap == brains[t.brain].max_haul_amount
            IN \A k \in 1..Len(t.accepted) :
                    LET id == t.accepted[k].id
                        before == notifications[Position(notifications, id)][2]
                        goal == t.seeded[k]
                    IN /\ k <= Len(t.seeded)
                       /\ goal.type = "Haul"
                       /\ IF before.amount > cap
                          THEN /\ goal.description = [before EXCEPT !.amount = cap]
                               /\ id \in LiveIds(notifications')
                               /\ notifications'[Position(notifications', id)][2]
                                     = [before EXCEPT !.amount = before.amount - cap]
                               /\ goal.description.amount
                                    + notifications'[Position(notifications', id)][2].amount
                                     = before.amount
                          ELSE /\ goal.description = before
                               /\ id \notin LiveIds(notifications')]_vars

\* a Hauler has accepted whole the remainder that an earlier split left
C8_Witness ==
    /\ last_think.brain # -1
    /\ \E k \in 1..Len(last_think.accepted) :
          /\ last_think.accepted[k].amount <= brains[last_think.brain].max_haul_amount
          /\ last_think.accepted[k].amount
                < Details(last_think.seeded[k].description.destination[1]).resource_amount
          /\ last_think.seeded[k].description.amount = last_think.accepted[k].amount

\* C9: when a call executes a Work goal whose timer is at 0 and whose request
\* is live, then after the call the request is off the broker, a Haul goal
\* carrying it is on top of the stack and the Work goal is directly beneath.
C9_SelfHaulOnTimeout ==
    [][(/\ last_think'.brain # -1
        /\ last_think'.executed # None
        /\ Unwrap(last_think'.executed).type = "Work"
        /\ Unwrap(last_think'.executed).haul_wait_timeout # None
        /\ Unwrap(Unwrap(last_think'.executed).haul_wait_timeout)[2] = 0
        /\ Unwrap(Unwrap(last_think'.executed).haul_wait_timeout)[1]
              \in LiveIds(notifications))
         => LET id == Unwrap(Unwrap(last_think'.executed).haul_wait_timeout)[1]
                request == notifications[Position(notifications, id)][2]
                stack == brains'[last_think'.brain].goal_stack
            IN /\ id \notin LiveIds(notifications')
               /\ Len(stack) >= 2
               /\ stack[Len(stack)] = Haul(request)
               /\ stack[Len(stack) - 1].type = "Work"]_vars

\* ------------------------------------------------- the BitGrid under calls
InitGrid ==
    /\ SceneIdle
    /\ GridFresh
    /\ StepsIdle
    /\ RelaxFresh
    /\ PathIdle
    /\ BrokerIdle
    /\ BrainIdle

NextGrid ==
    \/ \E pos \in GridProbes, new_value \in BOOLEAN : BitGridSetCall(pos, new_value)
    \/ \E pos \in GridProbes : BitGridGetCall(pos)

SpecGrid == InitGrid /\ [][NextGrid]_vars

\* the grid as it was before the last call
BitGridBefore == bitgrid_call.before

\* C11: a freshly created BitGrid reads false at every position, and after
\* set(p, true) get(p) is true while every other position q reads what it
\* read before the call, in the word of p and in every other word.
C11_FreshAndSetTrue ==
    /\ bitgrid_call.op = "new" =>
          \A q \in Tiles(bitgrid.width, bitgrid.height) : ~BitGridGet(bitgrid, q)
    /\ (bitgrid_call.op = "set" /\ ~bitgrid_call.aborted /\ bitgrid_call.new_value) =>
          /\ BitGridGet(bitgrid, bitgrid_call.pos)
          /\ \A q \in Tiles(bitgrid.width, bitgrid.height) \ {bitgrid_call.pos} :
                BitGridGet(bitgrid, q) = BitGridGet(BitGridBefore, q)

\* set(p, true) in the second word of a row whose first word holds a set bit
C11_Witness ==
    /\ bitgrid_call.op = "set"
    /\ ~bitgrid_call.aborted
    /\ bitgrid_call.new_value
    /\ bitgrid_call.pos[1] >= BIT_GRID_BITS
    /\ ~BitGridGet(BitGridBefore, bitgrid_call.pos)
    /\ BitGridGet(bitgrid, bitgrid_call.pos)
    /\ \E x \in 0..(BIT_GRID_BITS - 1) :
          /\ BitGridGet(BitGridBefore, <<x, bitgrid_call.pos[2]>>)
          /\ BitGridGet(bitgrid, <<x, bitgrid_call.pos[2]>>)

\* C12: after set(p, v) on an in-bounds position p, get(p) is v; set(p, false)
\* on a set bit clears it.
C12_SetThenGet ==
    (bitgrid_call.op = "set" /\ ~bitgrid_call.aborted) =>
        BitGridGet(bitgrid, bitgrid_call.pos) = bitgrid_call.new_value

\* --------------------------------------------------- the Path under calls
InitSteps ==
    /\ SceneIdle
    /\ StepsFresh
    /\ pattern \in [1..PatternLen -> Directions]
    /\ GridFresh
    /\ RelaxFresh
    /\ PathIdle
    /\ BrokerIdle
    /\ BrainIdle

NextSteps ==
    \/ PathAddStep
    \/ PathReverse

SpecSteps == InitSteps /\ [][NextSteps]_vars

\* the most steps a Path holds: 4 steps in each of QUAD_CAPACITY bytes
PathCapacity == 4 * QUAD_CAPACITY

\* C13: for every path P of 0 to 224 steps, reverse(reverse(P)) yields the
\* step sequence of P.
C13_ReverseTwice ==
    (reversals > 0 /\ reversals % 2 = 0) => Steps(built) = Steps(unreversed)

\* a path at capacity, of two different directions, reversed twice
C13_Witness ==
    /\ reversals = 2
    /\ len(unreversed) = PathCapacity
    /\ len(built) = PathCapacity
    /\ \E i, j \in 1..PatternLen : pattern[i] # pattern[j]
    /\ Steps(built) = Steps(unreversed)

C15_AnyNoLongerThanEach ==
    (pf_pc = "done" /\ ~single_destination /\ pf_result # None)
    => \A to \in destinations :
          LET single == FindPathTo(from, to, width, height, walls)
          IN single # None => len(Unwrap(pf_result)) <= len(Unwrap(single))

\* a mask of two tiles that find_path_to reaches by paths of different length
C15_Witness ==
    /\ pf_pc = "done"
    /\ ~single_destination
    /\ pf_result # None
    /\ walls # {}
    /\ \E t1, t2 \in destinations :
          LET p1 == FindPathTo(from, t1, width, height, walls)
              p2 == FindPathTo(from, t2, width, height, walls)
          IN /\ p1 # None
             /\ p2 # None
             /\ len(Unwrap(p1)) < len(Unwrap(p2))
             /\ len(Unwrap(pf_result)) = len(Unwrap(p1))

\* a blocked tile next to a tile that is not blocked and that the 4-neighbour
\* graph of the tiles that are not blocked joins to `origin`
BlockedNextToReachable(w, h, wl, origin, t) ==
    /\ t \in wl
    /\ origin \notin wl
    /\ \E dir \in Directions :
          LET a == AddDir(t, dir)
          IN /\ in_bounds(w, h, a)
             /\ a \notin wl
             /\ GraphDistance(w, h, wl, origin, a) >= 0

\* C16: with allow_wall_destination true, a search whose only destination is
\* a blocked tile next to a tile reachable from `from` returns a path.
C16_BlockedDestinationIsHit ==
    (/\ pf_pc = "done"
     /\ allow_wall_destination
     /\ in_bounds(width, height, from)
     /\ \E t \in destinations :
           /\ destinations = {t}
           /\ BlockedNextToReachable(width, height, walls, from, t))
    => pf_result # None

\* C17: find_path_to_any called with `from` off the grid returns None, and
\* neither an assertion nor an index out of range ends it.
C17_OffGridIsNone ==
    (~in_bounds(width, height, from) /\ pf_pc \notin {"idle", "search"})
    => (pf_pc = "done" /\ pf_result = None)

\* ------------------------------- tests::pathfinding_seems_to_work (310-346)
TEST_WIDTH == 5
TEST_HEIGHT == 4

\* lines 328-332
TestWalls == {<<1, 1>>, <<1, 2>>, <<3, 1>>, <<3, 2>>, <<4, 1>>}

\* lines 335-336
TestFrom == <<0, 1>>

TestTo == <<4, 2>>

\* lines 317-324
expected_path == <<Down, Down, Right, Right, Right, Right, Up>>

\* the map of the test, no search started
InitTest ==
    /\ width = TEST_WIDTH
    /\ height = TEST_HEIGHT
    /\ walls = TestWalls
    /\ destinations = {}
    /\ from = <<0, 0>>
    /\ single_destination = FALSE
    /\ allow_wall_destination = FALSE
    /\ try_positions = <<>>
    /\ shortest_distance_to_pos = ZeroedDistances(TEST_WIDTH, TEST_HEIGHT)
    /\ step_to_previous_in_path = ZeroedSteps(TEST_WIDTH, TEST_HEIGHT)
    /\ pf_pc = "idle"
    /\ pf_result = None
    /\ pushed = <<>>
    /\ BrokerIdle
    /\ BrainIdle
    /\ UnitIdle

\* find_path_to on the map of the test, from and to any tile
NextTest ==
    \/ find_path_to
    \/ SearchHit
    \/ SearchExpand
    \/ SearchExhausted
    \/ SearchPanics

SpecTest == InitTest /\ [][NextTest]_vars

\* C19: on the 5x4 map with the blocked tiles (1,1), (1,2), (3,1), (3,2),
\* (4,1), find_path_to from (0,1) to (4,2) returns the 7 steps Down, Down,
\* Right, Right, Right, Right, Up.
C19_TestPath ==
    (/\ pf_pc = "done"
     /\ single_destination
     /\ from = TestFrom
     /\ destinations = {TestTo})
    => /\ pf_result # None
       /\ len(Unwrap(pf_result)) = 7
       /\ Steps(Unwrap(pf_result)) = expected_path

\* the search of the test has returned
C19_Witness ==
    /\ pf_pc = "done"
    /\ single_destination
    /\ width = TEST_WIDTH
    /\ height = TEST_HEIGHT
    /\ walls = TestWalls
    /\ from = TestFrom
    /\ destinations = {TestTo}
    /\ pf_result # None
    /\ Steps(Unwrap(pf_result)) = expected_path

\* ------------------------------ the wander target of Goal::Relax (brain.rs)
RelaxW == 3
RelaxH == 3
RelaxTicks == 2
MaxRand == 3
MaxHashed == 2

\* the positions update_goals is called with
RelaxPositions == {<<1, 1>>, <<RelaxW - 1, RelaxH - 1>>}

\* to_le_bytes of a value that is not negative, n bytes
RECURSIVE LeBytes(_, _)
LeBytes(v, n) == IF n = 0 THEN <<>> ELSE <<v % 256>> \o LeBytes(v \div 256, n - 1)

\* lines 168-177: the 13 bytes that are hashed
hashed_bytes(current_brain_index, current_position, current_tick) ==
    <<current_brain_index>>
    \o LeBytes(current_position[1], 2)
    \o LeBytes(current_position[2], 2)
    \o LeBytes(current_tick, 8)

\* mutant: every call of the hash returns a new value
RandFresh(table, bytes, fresh) == fresh

\* line 178, `rand >> 32`: seahash::hash is a function of the bytes; its
\* value is fixed when the bytes are hashed for the first time
RandOf(table, bytes, fresh) ==
    IF bytes \in DOMAIN table THEN table[bytes] ELSE fresh

\* i16::abs_diff
abs_diff(a, b) == IF a < b THEN b - a ELSE a - b

\* lines 696-698: the target, or the abort of a remainder by zero
RelaxTarget(rand_high, walk_aabb) ==
    LET dx == abs_diff(walk_aabb[1][1], walk_aabb[2][1])
        dy == abs_diff(walk_aabb[1][2], walk_aabb[2][2])
    IN IF dx = 0 \/ dy = 0
       THEN [aborted |-> TRUE, dst |-> <<0, 0>>]
       ELSE [aborted |-> FALSE, dst |-> <<rand_high % dx, rand_high % dy>>]

\* update_goals with a Relax goal pushed in this call on top of the stack,
\* as far as the choice of the target (168-178, 304-317, 695-698); at most
\* MaxHashed different byte strings are hashed in a run
relax_target(current_brain_index, current_position, current_tick, fresh) ==
    LET bytes == hashed_bytes(current_brain_index, current_position, current_tick)
        rand_high == RandOf(seahash, bytes, fresh)
        walk_aabb == WalkAabb(current_position, RelaxW, RelaxH)
        input == <<current_brain_index, current_position, current_tick, walk_aabb>>
        result == RelaxTarget(rand_high, walk_aabb)
    IN /\ bytes \in DOMAIN seahash \/ Cardinality(DOMAIN seahash) < MaxHashed
       /\ seahash' = IF bytes \in DOMAIN seahash
                      THEN seahash ELSE seahash @@ (bytes :> rand_high)
       /\ relax_seen' = IF input \in DOMAIN relax_seen
                         THEN relax_seen ELSE relax_seen @@ (input :> result)
       /\ relax_call' = [key |-> input,
                         repeated |-> input \in DOMAIN relax_seen,
                         result |-> result]
       /\ UNCHANGED <<pathVars, brokerVars, brainVars, gridVars, stepVars, sceneVars>>

InitRelax ==
    /\ SceneIdle
    /\ RelaxFresh
    /\ GridFresh
    /\ StepsIdle
    /\ PathIdle
    /\ BrokerIdle
    /\ BrainIdle

NextRelax ==
    \E current_brain_index \in 0..(NumBrains - 1),
       current_position \in RelaxPositions,
       current_tick \in 0..(RelaxTicks - 1),
       fresh \in 0..MaxRand :
       relax_target(current_brain_index, current_position, current_tick, fresh)

SpecRelax == InitRelax /\ [][NextRelax]_vars

C20_OneAcceptedPerCall ==
    [][(/\ last_think'.brain # -1
        /\ brains[last_think'.brain].job = Hauler
        /\ brains[last_think'.brain].goal_stack = <<>>
        /\ last_think'.accepted # <<>>)
         => /\ Len(last_think'.accepted) = 1
            /\ Cardinality({k \in 1..Len(last_think'.seeded) :
                              last_think'.seeded[k].type = "Haul"}) = 1]_vars

\* ------------------------------------------------ a Hauler with a full stack
\* the Haul goal for what a split left of the generator's request (257-271)
RemainderHaul ==
    Haul(HaulDescription(Details(ENERGY_GENERATOR).resource_variant,
                         Details(ENERGY_GENERATOR).resource_amount - 2,
                         <<JobStations[1].variant, JobStations[1].position>>))

\* Game::new (lib.rs 228-283) followed by the calls that leave a Hauler with
\* MAX_GOALS Haul goals: MAX_GOALS requests of the generator were split by
\* another hauler and the remainders were accepted whole in one seeding
\* call (231-273) that could not move on (568-570)
InitFull ==
    /\ brains = [i \in 0..(NumBrains - 1) |->
                    [BrainNew(WaitTicks) EXCEPT
                        !.job = Hauler,
                        !.goal_stack = [k \in 1..MAX_GOALS |-> RemainderHaul]]]
    /\ next_brain = NumBrains
    /\ panicked = FALSE
    /\ job_changes = 0
    /\ last_think = NoThink
    /\ notifications = <<>>
    /\ id_counter = MAX_GOALS
    /\ capacity = MAX_GOALS
    /\ last_call = [op |-> "new", arg |-> 0, ret |-> None, after |-> None]
    /\ issued = 0..(MAX_GOALS - 1)
    /\ claimed = 0..(MAX_GOALS - 1)
    /\ width = BrainW
    /\ height = 1
    /\ walls = {JobStations[i].position : i \in 1..Len(JobStations)}
    /\ destinations = {}
    /\ from = <<0, 0>>
    /\ single_destination = FALSE
    /\ allow_wall_destination = FALSE
    /\ try_positions = <<>>
    /\ shortest_distance_to_pos = ZeroedDistances(BrainW, 1)
    /\ step_to_previous_in_path = ZeroedSteps(BrainW, 1)
    /\ pf_pc = "idle"
    /\ pf_result = None
    /\ pushed = <<>>
    /\ UnitIdle

\* every position, oxygen and morale level, one more request
FullScene ==
    [ids |-> MAX_GOALS + 1,
     path_len |-> MaxPathLen,
     positions |-> Positions(BrainW, 1),
     oxygen |-> OxygenLevels,
     morale |-> MoraleLevels]

NextFull ==
    \/ update_goals(FullScene)
    \/ \E on_oxygen_and_morale_tick \in BOOLEAN : tick(on_oxygen_and_morale_tick)
    \/ \E brain_index \in 0..(NumBrains - 1), forward \in BOOLEAN :
          set_job(brain_index, forward)

SpecFull == InitFull /\ [][NextFull]_vars

\* ------------------------------------------- one update_goals call, looked at
\* the call that last_think' records executed a goal of the given type
Executed(type) ==
    /\ last_think'.brain # -1
    /\ last_think'.executed # None
    /\ Unwrap(last_think'.executed).type = type

\* the stack of the calling brain after the call
StackAfter == brains'[last_think'.brain].goal_stack

\* the stack the call executed its top goal on, without that goal
Beneath == SubSeq(Unwrap(last_think'.drawn).stack, 1,
                  Len(Unwrap(last_think'.drawn).stack) - 1)

\* C21: when a call executes a Haul goal while the character holds none of
\* the resource and the search for a source finds no path, then after the
\* call the Haul goal is popped and an entry that was not live before the
\* call carries the goal's description on the broker.
C21_AbandonedHaulReadvertised ==
    [][(/\ Executed("Haul")
        /\ Unwrap(last_think'.drawn).current_amount = 0
        /\ Unwrap(last_think'.drawn).path_a = None)
         => /\ StackAfter = Beneath
            /\ \E i \in 1..Len(notifications') :
                  /\ notifications'[i][1] \notin LiveIds(notifications)
                  /\ notifications'[i][2] = Unwrap(last_think'.executed).description]_vars

\* C22: every entry that is live on the broker before an update_goals call
\* and not after it is, after the call, the description of a Haul goal on
\* the stack of the calling brain.
C22_RemovedIsOnStack ==
    [][(last_think'.brain # -1)
         => \A id \in LiveIds(notifications) \ LiveIds(notifications') :
               \E k \in 1..Len(StackAfter) :
                  StackAfter[k] =
                      Haul(notifications[Position(notifications, id)][2])]_vars

\* C23: the stack after a call that executed a goal is the stack the
\* execution left with exactly one of these applied: nothing, the top goal
\* popped, the subgoal appended, everything cleared. It is the pop whenever
\* the goal was marked abandoned or finished, also when a subgoal was
\* produced; otherwise a produced subgoal is appended when the stack has
\* room and the stack is cleared when it is full.
C23_OneResolution ==
    [][(last_think'.brain # -1 /\ last_think'.executed # None)
         => LET t == Unwrap(last_think'.drawn)
                e == t.executed_stack
            IN IF t.goal_not_acheivable \/ t.goal_finished
               THEN StackAfter = SubSeq(e, 1, Len(e) - 1)
               ELSE IF t.new_instrumental_goal # None
                    THEN IF Len(e) < MAX_GOALS
                         THEN StackAfter = Append(e, Unwrap(t.new_instrumental_goal))
                         ELSE StackAfter = <<>>
                    ELSE StackAfter = e]_vars

\* a call marked its goal abandoned or finished and produced a subgoal too:
\* the goal is gone and the subgoal is not on the stack
C23_Witness ==
    /\ last_think.brain # -1
    /\ last_think.executed # None
    /\ Unwrap(last_think.drawn).goal_not_acheivable
          \/ Unwrap(last_think.drawn).goal_finished
    /\ Unwrap(last_think.drawn).new_instrumental_goal # None
    /\ Len(brains[last_think.brain].goal_stack)
          = Len(Unwrap(last_think.drawn).executed_stack) - 1

\* a call produced a subgoal on a full stack
C23_OverflowSeen ==
    /\ last_think.brain # -1
    /\ last_think.executed # None
    /\ ~Unwrap(last_think.drawn).goal_not_acheivable
    /\ ~Unwrap(last_think.drawn).goal_finished
    /\ Unwrap(last_think.drawn).new_instrumental_goal # None
    /\ Len(Unwrap(last_think.drawn).executed_stack) = MAX_GOALS

\* how many RefillOxygen goals a stack holds
Refills(stack) ==
    Cardinality({k \in 1..Len(stack) : stack[k].type = "RefillOxygen"})

\* the call recorded in last_think' pushed RefillOxygen, and then: the call
\* went on to execute a goal, oxygen was at or below LOW_OXYGEN_THRESHOLD,
\* the search for oxygen found a path, and the executed goal is the
\* FollowPath along that path, directly above the RefillOxygen
RefillPushedWithPath ==
    (Refills(StackAfter) > Refills(brains[last_think'.brain].goal_stack))
      => /\ last_think'.executed # None
         /\ LET t == Unwrap(last_think'.drawn)
                n == Len(t.stack)
            IN /\ t.oxygen <= LOW_OXYGEN_THRESHOLD
               /\ t.oxygen_path # None
               /\ n >= 2
               /\ t.stack[n - 1] = RefillOxygen
               /\ t.stack[n] = FollowPath(t.current_position, Unwrap(t.oxygen_path))
               /\ Unwrap(last_think'.executed) = t.stack[n]

C25_RefillOxygen ==
    [][Executed("RefillOxygen")
         => LET t == Unwrap(last_think'.drawn)
            IN IF t.flag
               THEN /\ last_think'.oxygen = t.oxygen + 1
                    /\ (StackAfter = Beneath) <=> (t.oxygen + 1 >= MAX_OXYGEN)
               ELSE /\ StackAfter = Beneath
                    /\ last_think'.oxygen = t.oxygen]_vars

\* ------------------------------------------------------ the Relax goal's box
\* C26: choosing the wander target never takes a remainder by zero, and the
\* target lies inside the bounding box stored in the Relax goal.
C26_TargetInsideBox ==
    relax_call.key # <<>> =>
        LET walk_aabb == relax_call.key[4]
            dst == relax_call.result.dst
        IN /\ ~relax_call.result.aborted
           /\ walk_aabb[1][1] <= dst[1] /\ dst[1] <= walk_aabb[2][1]
           /\ walk_aabb[1][2] <= dst[2] /\ dst[2] <= walk_aabb[2][2]

\* C27: both corners of the bounding box of every Relax goal on a stack lie
\* within the grid.
C27_BoxInsideGrid ==
    \A i \in DOMAIN brains :
        \A k \in 1..Len(brains[i].goal_stack) :
            brains[i].goal_stack[k].type = "Relax"
              => /\ in_bounds(width, height, brains[i].goal_stack[k].walk_aabb[1])
                 /\ in_bounds(width, height, brains[i].goal_stack[k].walk_aabb[2])

\* ------------------------------------------------------- a FollowPath goal
\* C28: a call that executes a FollowPath goal pops it as finished exactly
\* when its path is empty and abandons it only when the character stands
\* neither on the anchor nor on a tile of the path and the new search to the
\* path's last tile finds nothing; otherwise the goal stays on top, anchored
\* at the character's position, with a path that ends on the tile the path
\* ended on before the call. No subgoal is produced.
C28_FollowPathKeepsDestination ==
    [][Executed("FollowPath")
         => LET goal == Unwrap(last_think'.executed)
                t == Unwrap(last_think'.drawn)
                visited == Walk(goal.from, Steps(goal.path))
                off_path == /\ t.current_position # goal.from
                            /\ \A i \in 1..Len(visited) :
                                  visited[i] # t.current_position
            IN /\ t.goal_finished <=> is_empty(goal.path)
               /\ t.goal_not_acheivable
                    <=> (~is_empty(goal.path) /\ off_path /\ t.path_a = None)
               /\ t.new_instrumental_goal = None
               /\ IF t.goal_finished \/ t.goal_not_acheivable
                  THEN StackAfter = Beneath
                  ELSE /\ Len(StackAfter) = Len(t.stack)
                       /\ SubSeq(StackAfter, 1, Len(StackAfter) - 1) = Beneath
                       /\ StackAfter[Len(StackAfter)].type = "FollowPath"
                       /\ StackAfter[Len(StackAfter)].from = t.current_position
                       /\ LeadsTo(StackAfter[Len(StackAfter)]) = LeadsTo(goal)]_vars

\* a character off its path has found a new path of two steps to the tile
\* the old path led to
C28_Witness ==
    /\ last_think.brain # -1
    /\ last_think.executed # None
    /\ Unwrap(last_think.executed).type = "FollowPath"
    /\ Unwrap(last_think.drawn).path_a # None
    /\ LET goal == Unwrap(last_think.executed)
           t == Unwrap(last_think.drawn)
           stack == brains[last_think.brain].goal_stack
       IN /\ t.current_position # goal.from
          /\ \A i \in 1..len(goal.path) :
                Walk(goal.from, Steps(goal.path))[i] # t.current_position
          /\ stack # <<>>
          /\ stack[Len(stack)] = FollowPath(t.current_position, Unwrap(t.path_a))
          /\ len(Unwrap(t.path_a)) = 2
          /\ LeadsTo(stack[Len(stack)]) = LeadsTo(goal)

\* a character part of the way along its path: the path was cut
C28_TruncationSeen ==
    /\ last_think.brain # -1
    /\ last_think.executed # None
    /\ Unwrap(last_think.executed).type = "FollowPath"
    /\ LET goal == Unwrap(last_think.executed)
           stack == brains[last_think.brain].goal_stack
       IN /\ len(goal.path) = 2
          /\ stack # <<>>
          /\ stack[Len(stack)].type = "FollowPath"
          /\ len(stack[Len(stack)].path) = 1
          /\ stack[Len(stack)].from # goal.from

\* ------------------------------------------------------------ a Haul goal
\* the executed Haul goal's character holds the amount the goal asks for
HoldsRequested ==
    Unwrap(last_think'.drawn).current_amount
        >= Unwrap(last_think'.executed).description.amount

\* C29: a call that executes a Haul goal while the character holds the
\* requested amount and the search for a path to the destination finds
\* nothing pops the goal.
C29_UnreachableDestinationAbandons ==
    [][(/\ Executed("Haul")
        /\ HoldsRequested
        /\ Unwrap(last_think'.drawn).path_b = None)
         => StackAfter = Beneath]_vars

\* C30: a call that executes a Haul goal while the character holds the
\* requested amount and stands within Manhattan distance < 2 of the
\* destination station marks the goal finished and pops it.
C30_AdjacentDelivers ==
    [][(/\ Executed("Haul")
        /\ HoldsRequested
        /\ manhattan_distance(Unwrap(last_think'.drawn).current_position,
                              Unwrap(last_think'.executed).description.destination[2]) < 2)
         => /\ Unwrap(last_think'.drawn).goal_finished
            /\ StackAfter = Beneath]_vars

\* ------------------------------------------------ Stockpile (game_object.rs)
\* bounds of the stockpile under calls
MaxStockCalls == 4

\* the amounts the calls add: one unit, a haul, most of a slot
StockAmounts == {1, 2, 254}

U8_MAX == 255

ResourceVariants == {MAGMA, ENERGY, OXYGEN}

\* Stockpile::zeroed() (129-136); `reserved` holds the slots whose bit is set
ZeroedStockpile ==
    [variant_count |-> 0,
     reserved |-> {},
     variants |-> <<0, 0, 0>>,
     amounts |-> <<0, 0, 0>>]

\* Stockpile::with_resource (138-154); slots are counted from 1 here
with_resource(s, resource, amount, reserved) ==
    LET i == s.variant_count + 1
    IN IF i > Len(s.variants) THEN s
       ELSE [s EXCEPT !.variants[i] = resource,
                      !.amounts[i] = amount,
                      !.reserved = IF reserved THEN @ \cup {i} ELSE @,
                      !.variant_count = @ + 1]

\* the slot that get_resources and get_resources_mut return (198-216): the
\* first of the used slots that holds the variant, 0 when there is none
SlotOf(s, variant) ==
    LET hits == {i \in 1..s.variant_count : s.variants[i] = variant}
    IN IF hits = {} THEN 0 ELSE CHOOSE i \in hits : \A j \in hits : i <= j

\* Stockpile::get_resources (208-216) with unwrap_or(0)
Held(s, variant) ==
    IF SlotOf(s, variant) = 0 THEN 0 ELSE s.amounts[SlotOf(s, variant)]

\* Stockpile::add_resource (158-183): the stockpile after the call and the
\* Result; amount.checked_sub(capacity_left) is Some for every amount that is
\* not below capacity_left (161)
AddResource(s, variant, amount) ==
    LET slot == SlotOf(s, variant)
        free == {i \in 1..Len(s.amounts) : i \notin s.reserved /\ s.amounts[i] = 0}
    IN IF slot # 0
       THEN LET capacity_left == U8_MAX - s.amounts[slot]
            IN IF amount >= capacity_left
               THEN [s |-> [s EXCEPT !.amounts[slot] = U8_MAX],
                     ret |-> Err(amount - capacity_left)]
               ELSE [s |-> [s EXCEPT !.amounts[slot] = @ + amount], ret |-> Ok(0)]
       ELSE IF s.variant_count = Len(s.variants)
            THEN IF free = {} THEN [s |-> s, ret |-> Err(amount)]
                 ELSE LET empty_idx == CHOOSE i \in free : \A j \in free : i <= j
                      IN [s |-> [s EXCEPT !.variants[empty_idx] = variant,
                                          !.amounts[empty_idx] = amount],
                          ret |-> Ok(0)]
            ELSE [s |-> with_resource(s, variant, amount, FALSE), ret |-> Ok(0)]

\* Stockpile::mark_reserved (185-196)
MarkReserved(s, variant, reserved) ==
    LET slots == {i \in 1..s.variant_count : s.variants[i] = variant}
    IN [s EXCEPT !.reserved = IF reserved THEN @ \cup slots ELSE @ \ slots]

\* Stockpile::has_non_reserved_resources (218-230)
has_non_reserved_resources(s, variant) ==
    LET hits == {i \in 1..s.variant_count :
                    s.variants[i] = variant /\ i \notin s.reserved}
    IN IF hits = {} THEN FALSE
       ELSE s.amounts[CHOOSE i \in hits : \A j \in hits : i <= j] > 0

\* a game object with a Stockpile (game_object.rs 14-58): a Character with
\* its brain_index, a JobStation with its variant or a Resource, as `tag`
Object(kind, tag, position, stockpile) ==
    [kind |-> kind, tag |-> tag, position |-> position, stockpile |-> stockpile]

StockCall(op, variant, amount, ret, before, calls) ==
    [op |-> op, variant |-> variant, amount |-> amount, ret |-> ret,
     before |-> before, calls |-> calls]

\* stockpile.add_resource(variant, amount) on the one stockpile
add_resource(variant, amount) ==
    /\ stock_call.calls < MaxStockCalls
    /\ LET r == AddResource(stockpiles[1].stockpile, variant, amount)
       IN /\ stockpiles' = [stockpiles EXCEPT ![1].stockpile = r.s]
          /\ stock_call' = StockCall("add_resource", variant, amount, r.ret,
                                     stockpiles[1].stockpile, stock_call.calls + 1)
    /\ UNCHANGED <<characters, move_call>>
    /\ UNCHANGED <<pathVars, brokerVars, brainVars, gridVars, stepVars, relaxVars>>

\* stockpile.mark_reserved(variant, reserved) on the one stockpile
mark_reserved(variant, reserved) ==
    /\ stock_call.calls < MaxStockCalls
    /\ stockpiles' = [stockpiles EXCEPT
                         ![1].stockpile = MarkReserved(@, variant, reserved)]
    /\ stock_call' = StockCall("mark_reserved", variant, 0, Ok(0),
                               stockpiles[1].stockpile, stock_call.calls + 1)
    /\ UNCHANGED <<characters, move_call>>
    /\ UNCHANGED <<pathVars, brokerVars, brainVars, gridVars, stepVars, relaxVars>>

\* a stockpile as Game::new makes them: zeroed (lib.rs 313) or zeroed with
\* one reserved slot of a variant (lib.rs 332, 343)
InitStock ==
    /\ \E s \in {ZeroedStockpile} \cup
                {with_resource(ZeroedStockpile, v, 0, TRUE) : v \in ResourceVariants} :
          stockpiles = <<Object("Resource", 0, <<0, 0>>, s)>>
    /\ stock_call = StockCall("new", 0, 0, Ok(0), ZeroedStockpile, 0)
    /\ characters = <<>>
    /\ move_call = [op |-> "none"]
    /\ GridFresh
    /\ StepsIdle
    /\ RelaxFresh
    /\ PathIdle
    /\ BrokerIdle
    /\ BrainIdle

NextStock ==
    \/ \E variant \in ResourceVariants, amount \in StockAmounts :
          add_resource(variant, amount)
    \/ \E variant \in ResourceVariants, reserved \in BOOLEAN :
          mark_reserved(variant, reserved)

SpecStock == InitStock /\ [][NextStock]_vars

\* C40: add_resource(variant, amount) returns Ok exactly when all units were
\* stored, and otherwise Err(n) with n > 0 and (stored after) + n = (stored
\* before) + amount; the stored amount never exceeds 255.
C40_AddResourceNeverLoses ==
    stock_call.op = "add_resource" =>
        LET before == Held(stock_call.before, stock_call.variant)
            after == Held(stockpiles[1].stockpile, stock_call.variant)
        IN /\ after <= U8_MAX
           /\ stock_call.ret.ok <=> (after = before + stock_call.amount)
           /\ ~stock_call.ret.ok
                => /\ stock_call.ret.val > 0
                   /\ after + stock_call.ret.val = before + stock_call.amount

\* ------------------------------------- the goods of a Haul goal (brain.rs)
\* bounds of the scene of the haul
ResourceTable == 3
MaxHauls == 4

Min(a, b) == IF a < b THEN a ELSE b

\* the units of a variant that a stockpile holds, over all its used slots
UnitsIn(s, variant) ==
    LET Sum[i \in 0..s.variant_count] ==
            IF i = 0 THEN 0
            ELSE Sum[i - 1] + (IF s.variants[i] = variant THEN s.amounts[i] ELSE 0)
    IN Sum[s.variant_count]

\* the units of a variant summed over all stockpiles of the scene
Total(objs, variant) ==
    LET Sum[i \in 0..Len(objs)] ==
            IF i = 0 THEN 0 ELSE Sum[i - 1] + UnitsIn(objs[i].stockpile, variant)
    IN Sum[Len(objs)]

\* the first character with the brain index, 0 when there is none (490, 611)
CharacterAt(objs, brain_index) ==
    LET hits == {i \in 1..Len(objs) :
                    objs[i].kind = "Character" /\ objs[i].tag = brain_index}
    IN IF hits = {} THEN 0 ELSE CHOOSE i \in hits : \A j \in hits : i <= j

\* the first job station of the variant at the position, 0 when there is
\* none (586-589)
StationAt(objs, dst_job, dst_pos) ==
    LET hits == {i \in 1..Len(objs) : /\ objs[i].kind = "JobStation"
                                      /\ objs[i].tag = dst_job
                                      /\ objs[i].position = dst_pos}
    IN IF hits = {} THEN 0 ELSE CHOOSE i \in hits : \A j \in hits : i <= j

\* mutant: what a stockpile holds beyond the request is taken as well
RECURSIVE PickUpWhole(_, _, _, _, _, _)
PickUpWhole(objs, i, current_position, resource, requested_amount, picked_up_thus_far) ==
    IF i > Len(objs)
    THEN [objs |-> objs, picked_up_thus_far |-> picked_up_thus_far]
    ELSE LET stockpile == objs[i].stockpile
             near == /\ manhattan_distance(objs[i].position, current_position) < 2
                     /\ has_non_reserved_resources(stockpile, resource)
             slot == SlotOf(stockpile, resource)
             picked_up == IF near
                          THEN Min(requested_amount - picked_up_thus_far,
                                   stockpile.amounts[slot])
                          ELSE 0
             after == IF near
                      THEN [objs EXCEPT ![i].stockpile.amounts[slot] = 0]
                      ELSE objs
         IN IF picked_up_thus_far + picked_up >= requested_amount
            THEN [objs |-> after, picked_up_thus_far |-> picked_up_thus_far + picked_up]
            ELSE PickUpWhole(after, i + 1, current_position, resource,
                             requested_amount, picked_up_thus_far + picked_up)

\* the pick-up (459-480) from stockpile i on: the stockpiles after it and
\* picked_up_thus_far
RECURSIVE PickUp(_, _, _, _, _, _)
PickUp(objs, i, current_position, resource, requested_amount, picked_up_thus_far) ==
    IF i > Len(objs)
    THEN [objs |-> objs, picked_up_thus_far |-> picked_up_thus_far]
    ELSE LET stockpile == objs[i].stockpile
             near == /\ manhattan_distance(objs[i].position, current_position) < 2
                     /\ has_non_reserved_resources(stockpile, resource)
             slot == SlotOf(stockpile, resource)
             picked_up == IF near
                          THEN Min(requested_amount - picked_up_thus_far,
                                   stockpile.amounts[slot])
                          ELSE 0
             after == IF near
                      THEN [objs EXCEPT ![i].stockpile.amounts[slot] = @ - picked_up]
                      ELSE objs
         IN IF picked_up_thus_far + picked_up >= requested_amount
            THEN [objs |-> after, picked_up_thus_far |-> picked_up_thus_far + picked_up]
            ELSE PickUp(after, i + 1, current_position, resource,
                        requested_amount, picked_up_thus_far + picked_up)

\* the pocketing (485-508): the stockpiles after it, what is left of
\* picked_up_thus_far, current_amount, and whether the unwrap of the result
\* of add_resource aborted the program (496)
Pocket(objs, brain_index, resource, requested_amount, picked_up_thus_far) ==
    LET i == CharacterAt(objs, brain_index)
        held == IF i = 0 THEN 0 ELSE Held(objs[i].stockpile, resource)
        pocketed == Min(picked_up_thus_far, requested_amount - held)
        r == AddResource(objs[i].stockpile, resource, pocketed)
    IN IF i # 0 /\ picked_up_thus_far > 0 /\ held < requested_amount
       THEN IF r.ret.ok
            THEN [objs |-> [objs EXCEPT ![i].stockpile =
                                MarkReserved(r.s, resource, TRUE)],
                  picked_up_thus_far |-> picked_up_thus_far - pocketed,
                  current_amount |-> held + pocketed,
                  aborted |-> FALSE]
            ELSE [objs |-> [objs EXCEPT ![i].stockpile = r.s],
                  picked_up_thus_far |-> picked_up_thus_far,
                  current_amount |-> held,
                  aborted |-> TRUE]
       ELSE [objs |-> objs, picked_up_thus_far |-> picked_up_thus_far,
             current_amount |-> held, aborted |-> FALSE]

\* scene.spawn of a loose pile (514-523, 629-635): Err when the table of
\* Resource objects is full
Spawn(objs, position, resource, amount) ==
    IF Cardinality({i \in 1..Len(objs) : objs[i].kind = "Resource"}) >= ResourceTable
    THEN [objs |-> objs, is_err |-> TRUE]
    ELSE [objs |-> Append(objs, Object("Resource", 0, position,
                              with_resource(ZeroedStockpile, resource, amount, FALSE))),
          is_err |-> FALSE]

\* the drop-off (574-641): the stockpiles after it and whether a spawn failed
DropOff(objs, brain_index, current_position, resource, destination, current_amount) ==
    LET station == StationAt(objs, destination[1], destination[2])
        r == AddResource(objs[station].stockpile, resource, current_amount)
        overflow == IF r.ret.ok THEN 0 ELSE r.ret.val
        dropped_off == IF station = 0 THEN 0 ELSE current_amount - overflow
        delivered == IF station = 0 THEN objs
                     ELSE [objs EXCEPT ![station].stockpile = r.s]
        i == CharacterAt(delivered, brain_index)
        slot == IF i = 0 THEN 0 ELSE SlotOf(delivered[i].stockpile, resource)
        left_over == IF slot = 0 THEN 0
                     ELSE delivered[i].stockpile.amounts[slot] - dropped_off
        emptied ==
            IF slot = 0 THEN delivered
            ELSE [delivered EXCEPT
                     ![i].stockpile =
                         MarkReserved([@ EXCEPT !.amounts[slot] =
                                           (@ - dropped_off) - left_over],
                                      resource, FALSE)]
    IN IF left_over > 0
       THEN Spawn(emptied, current_position, resource, left_over)
       ELSE [objs |-> emptied, is_err |-> FALSE]

\* what find_path_to(from, to, true, walls, temp_arena) (560) can return for
\* the way to the destination of a haul. The five-argument path finder is
\* not among the sources: with the four-argument one the result is None or a
\* path onto the tile; the description of the five-argument one has a
\* character next to a blocked destination arrive, which is the empty path.
DestinationResults(w, h, origin, to, n) ==
    PathResultsTo(w, h, origin, to, n)
    \cup (IF manhattan_distance(origin, to) < 2 THEN {Some(PathDefault)} ELSE {})

HaulCall(goal, current_position, before, picked_up, dropped, o, spawn_failed, aborted, calls) ==
    [op |-> "haul", goal |-> goal, current_position |-> current_position,
     before |-> before, picked_up |-> picked_up, dropped |-> dropped,
     goal_not_acheivable |-> o.goal_not_acheivable,
     goal_finished |-> o.goal_finished,
     new_instrumental_goal |-> o.new_instrumental_goal,
     spawn_failed |-> spawn_failed, aborted |-> aborted, calls |-> calls]

\* Goal::Haul (451-647) executed for brain 0 with the goods it moves: the
\* pick-up, the pocketing, the drop of what did not fit, the two searches
\* and the drop-off
execute_haul(requested_amount) ==
    /\ stock_call.calls < MaxHauls
    /\ ~stock_call.aborted
    /\ LET resource == MAGMA
           destination == <<JobStations[1].variant, JobStations[1].position>>
           goal == Haul(HaulDescription(resource, requested_amount, destination))
           current_position == stockpiles[CharacterAt(stockpiles, 0)].position
           picked == PickUp(stockpiles, 1, current_position, resource,
                            requested_amount, 0)
           pocketed == Pocket(picked.objs, 0, resource, requested_amount,
                              picked.picked_up_thus_far)
           dropped == IF pocketed.picked_up_thus_far > 0 /\ ~pocketed.aborted
                      THEN Spawn(pocketed.objs, current_position, resource,
                                 pocketed.picked_up_thus_far)
                      ELSE [objs |-> pocketed.objs, is_err |-> FALSE]
           c == [brain |-> [BrainNew(WaitTicks) EXCEPT !.goal_stack = <<goal>>]]
       IN \E resource_path \in PathResults(width, height, current_position, MaxPathLen),
             destination_path \in DestinationResults(width, height, current_position,
                                                     destination[2], MaxPathLen) :
             LET o == ExecHaul(c, current_position, pocketed.current_amount,
                               resource_path, destination_path)
                 delivered ==
                     IF o.goal_finished /\ ~pocketed.aborted
                     THEN DropOff(dropped.objs, 0, current_position, resource,
                                  destination, pocketed.current_amount)
                     ELSE [objs |-> dropped.objs, is_err |-> FALSE]
             IN /\ stockpiles' = delivered.objs
                /\ stock_call' = HaulCall(goal, current_position, stockpiles,
                                          picked.picked_up_thus_far,
                                          pocketed.picked_up_thus_far, o,
                                          dropped.is_err \/ delivered.is_err,
                                          pocketed.aborted, stock_call.calls + 1)
    /\ UNCHANGED <<characters, move_call>>
    /\ UNCHANGED <<pathVars, brokerVars, brainVars, gridVars, stepVars, relaxVars>>

\* the movement phase takes the character to a free tile (lib.rs 615-641)
walk(new_pos) ==
    /\ ~stock_call.aborted
    /\ LET i == CharacterAt(stockpiles, 0)
       IN /\ manhattan_distance(stockpiles[i].position, new_pos) = 1
          /\ stockpiles' = [stockpiles EXCEPT ![i].position = new_pos]
    /\ UNCHANGED <<stock_call, characters, move_call>>
    /\ UNCHANGED <<pathVars, brokerVars, brainVars, gridVars, stepVars, relaxVars>>

\* Game::new (lib.rs 305-376) in a world of BrainW x 1 tiles: a character
\* with an empty stockpile, the energy generator with its reserved magma
\* slot, and a pile of 2 magma on every tile of a set of free tiles
InitHaul ==
    /\ \E position \in Positions(BrainW, 1), vents \in SUBSET Positions(BrainW, 1) :
          LET Piles[n \in 0..BrainW] ==
                  IF n = 0 THEN <<>>
                  ELSE Piles[n - 1] \o
                       (IF <<n - 1, 0>> \in vents
                        THEN <<Object("Resource", 0, <<n - 1, 0>>,
                                      with_resource(ZeroedStockpile, MAGMA, 2, FALSE))>>
                        ELSE <<>>)
          IN stockpiles =
                <<Object("Character", 0, position, ZeroedStockpile),
                  Object("JobStation", JobStations[1].variant, JobStations[1].position,
                         with_resource(ZeroedStockpile,
                                       Details(JobStations[1].variant).resource_variant,
                                       0, TRUE))>> \o Piles[BrainW]
    /\ stock_call = [op |-> "new", calls |-> 0, aborted |-> FALSE]
    /\ characters = <<>>
    /\ move_call = [op |-> "none"]
    /\ GridFresh
    /\ StepsIdle
    /\ RelaxFresh
    /\ BrokerIdle
    /\ BrainIdle
    /\ width = BrainW
    /\ height = 1
    /\ walls = {JobStations[i].position : i \in 1..Len(JobStations)}
    /\ destinations = {}
    /\ from = <<0, 0>>
    /\ single_destination = FALSE
    /\ allow_wall_destination = FALSE
    /\ try_positions = <<>>
    /\ shortest_distance_to_pos = ZeroedDistances(BrainW, 1)
    /\ step_to_previous_in_path = ZeroedSteps(BrainW, 1)
    /\ pf_pc = "idle"
    /\ pf_result = None
    /\ pushed = <<>>

NextHaul ==
    \/ \E requested_amount \in 1..Details(ENERGY_GENERATOR).resource_amount :
          execute_haul(requested_amount)
    \/ \E new_pos \in Positions(BrainW, 1) : walk(new_pos)

SpecHaul == InitHaul /\ [][NextHaul]_vars

C31_OverflowSeen ==
    /\ stock_call.op = "haul"
    /\ stock_call.dropped > 0
    /\ ~stock_call.spawn_failed
    /\ Len(stockpiles) = Len(stock_call.before) + 1

\* a pile could not be spawned: the units are gone
C31_SpawnFailedSeen ==
    /\ stock_call.op = "haul"
    /\ stock_call.spawn_failed
    /\ Total(stockpiles, MAGMA) < Total(stock_call.before, MAGMA)

\* ------------------------------------------- the try list of one search
\* C35: during one search no position, the origin included, is pushed on
\* the try list twice, and the try list never holds more positions than the
\* grid has cells.
C35_PushedOnce ==
    /\ \A i, j \in 1..Len(pushed) : i # j => pushed[i] # pushed[j]
    /\ Len(try_positions) <= width * height

\* --------------------------------------------- the search runs to its end
\* a corridor one tile high that is longer than a Path can hold steps
CorridorLen == 226

\* the grids the searches run on: every GridW x GridH grid with up to
\* MaxWalls blocked tiles, and the open corridor
InitSearch ==
    /\ \/ /\ width = GridW
          /\ height = GridH
          /\ walls \in SubsetsUpTo(Tiles(GridW, GridH), MaxWalls)
       \/ /\ width = CorridorLen
          /\ height = 1
          /\ walls = {}
    /\ destinations = {}
    /\ from = <<0, 0>>
    /\ single_destination = FALSE
    /\ allow_wall_destination = FALSE
    /\ try_positions = <<>>
    /\ shortest_distance_to_pos = ZeroedDistances(width, height)
    /\ step_to_previous_in_path = ZeroedSteps(width, height)
    /\ pf_pc = "idle"
    /\ pf_result = None
    /\ pushed = <<>>
    /\ BrokerIdle
    /\ BrainIdle
    /\ UnitIdle

\* find_path_to_any (27-38) from an origin on the grid: with any mask of up
\* to MaxDestinations tiles on the small grids, from either end of the
\* corridor to one of the two tiles at its right end
search ==
    /\ pf_pc = "idle"
    /\ IF width = CorridorLen
       THEN \E f \in {<<0, 0>>, <<CorridorLen - 1, 0>>},
               to \in {<<CorridorLen - 2, 0>>, <<CorridorLen - 1, 0>>} :
               StartSearch(f, {to}, TRUE, FALSE)
       ELSE \E f \in Tiles(width, height),
               dsts \in SubsetsUpTo(Tiles(width, height), MaxDestinations) :
               StartSearch(f, dsts, FALSE, FALSE)
    /\ UNCHANGED <<brokerVars, brainVars, unitVars>>

NextSearch ==
    \/ search
    \/ SearchHit
    \/ SearchExpand
    \/ SearchExhausted

\* the while loop (39-89) goes on turn by turn until it returns
SpecSearch ==
    /\ InitSearch
    /\ [][NextSearch]_vars
    /\ WF_vars(SearchHit \/ SearchExpand \/ SearchExhausted)

\* the backtrack (54-60) of the turn that ended the search
LastBacktrack == Backtrack(TryPos, PathDefault, from, step_to_previous_in_path)

\* C39: every search from an origin on the grid comes to its end, with any
\* mask, also one with no reachable tile; the backtrack of a hit has taken at
\* most as many steps as a Path holds and has stopped on the origin or on a
\* full path.
C39_SearchTerminates ==
    /\ (pf_pc = "search") ~> (pf_pc = "done")
    /\ []((pf_pc = "done" /\ try_positions # <<>>)
            => /\ len(LastBacktrack.path_to_start) <= PathCapacity
               /\ \/ LastBacktrack.path_end = from
                  \/ is_full(LastBacktrack.path_to_start))

\* a search on the corridor hit a tile further away than a Path holds steps:
\* the backtrack stopped on the full path and the search returned None
C39_Witness ==
    /\ pf_pc = "done"
    /\ pf_result = None
    /\ try_positions # <<>>
    /\ is_full(LastBacktrack.path_to_start)
    /\ LastBacktrack.path_end # from

\* a search with no reachable tile in its mask ran the try list empty
C39_ExhaustedSeen ==
    /\ pf_pc = "done"
    /\ pf_result = None
    /\ try_positions = <<>>
    /\ destinations # {}
    /\ Len(pushed) > 2

\* ------------------------------- the movement phase (lib.rs 592-641)
MoveW == 3
MoveH == 3
Movers == 2

\* Direction::next_clockwise
next_clockwise(d) ==
    CASE d = Up -> Right
      [] d = Right -> Down
      [] d = Down -> Left
      [] d = Left -> Up

\* lines 592-613: this tick's collision information, a bit set for every
\* collider that is not walkable and for every wall tile
RECURSIVE SetWalls(_, _)
SetWalls(g, blocked) ==
    IF blocked = {} THEN g
    ELSE LET pos == CHOOSE p \in blocked : TRUE
         IN SetWalls(BitGridSet(g, pos, TRUE), blocked \ {pos})

\* lines 626-633: the loop that looks for a free tile; BitGrid::get asserts
\* that new_pos is on the grid
RECURSIVE Sidestep(_, _, _, _, _)
Sidestep(g, pos, dir, new_pos, backup_dir) ==
    IF ~BitGridAsserts(g, new_pos)
    THEN [outcome |-> "panic", new_pos |-> new_pos]
    ELSE IF BitGridGet(g, new_pos)
         THEN IF next_clockwise(backup_dir) = dir
              THEN [outcome |-> "stays", new_pos |-> AddDir(pos, backup_dir)]
              ELSE Sidestep(g, pos, dir, AddDir(pos, backup_dir),
                            next_clockwise(backup_dir))
         ELSE [outcome |-> "moves", new_pos |-> new_pos]

\* mutant: the tile moved onto is not marked
MoveOneUnmarked(m, i, dir) ==
    IF m.aborted \/ dir = "None" THEN m
    ELSE LET pos == m.positions[i]
             step == Sidestep(m.walls, pos, dir, AddDir(pos, dir),
                              next_clockwise(dir))
         IN CASE step.outcome = "panic" -> [m EXCEPT !.aborted = TRUE]
              [] step.outcome = "stays" -> m
              [] step.outcome = "moves" ->
                   [m EXCEPT !.positions[i] = step.new_pos]

\* lines 622-637: one character of the loop, dir its next_move_direction
MoveOne(m, i, dir) ==
    IF m.aborted \/ dir = "None" THEN m
    ELSE LET pos == m.positions[i]
             step == Sidestep(m.walls, pos, dir, AddDir(pos, dir),
                              next_clockwise(dir))
         IN CASE step.outcome = "panic" -> [m EXCEPT !.aborted = TRUE]
              [] step.outcome = "stays" -> m
              [] step.outcome = "moves" ->
                   [m EXCEPT !.walls = BitGridSet(BitGridSet(m.walls, pos, FALSE),
                                                  step.new_pos, TRUE),
                             !.positions[i] = step.new_pos]

\* lines 621-638: the characters in the order the scene holds them
RECURSIVE MoveAll(_, _, _)
MoveAll(m, dirs, i) ==
    IF i > Len(dirs) THEN m
    ELSE MoveAll(MoveOne(m, i, dirs[i]), dirs, i + 1)

\* the movement phase of one tick: the grid is built from the terrain, the
\* job stations and the characters, then every character is moved
move_tick(dirs) ==
    /\ move_call.op # "panic"
    /\ LET occupancy == SetWalls(BitGridNew(width, height),
                             walls \cup {characters[i] : i \in 1..Len(characters)})
           m == MoveAll([walls |-> occupancy, positions |-> characters,
                         aborted |-> FALSE], dirs, 1)
       IN /\ characters' = m.positions
          /\ move_call' = [op |-> IF m.aborted THEN "panic" ELSE "move",
                           before |-> characters, dirs |-> dirs,
                           grid |-> occupancy, walls |-> m.walls]
    /\ UNCHANGED <<stockpiles, stock_call>>
    /\ UNCHANGED <<pathVars, brokerVars, brainVars, gridVars, stepVars, relaxVars>>

\* a world of MoveW x MoveH tiles with the job station, up to MaxWalls wall
\* tiles, and Movers characters on distinct free tiles
InitMove ==
    /\ width = MoveW
    /\ height = MoveH
    /\ \E wall \in SubsetsUpTo(Positions(MoveW, MoveH), MaxWalls) :
          walls = wall \cup {JobStations[i].position : i \in 1..Len(JobStations)}
    /\ characters \in [1..Movers -> Tiles(MoveW, MoveH) \ walls]
    /\ \A i, j \in 1..Movers : i # j => characters[i] # characters[j]
    /\ move_call = [op |-> "none"]
    /\ stockpiles = <<>>
    /\ stock_call = [op |-> "none"]
    /\ destinations = {}
    /\ from = <<0, 0>>
    /\ single_destination = FALSE
    /\ allow_wall_destination = FALSE
    /\ try_positions = <<>>
    /\ shortest_distance_to_pos = ZeroedDistances(MoveW, MoveH)
    /\ step_to_previous_in_path = ZeroedSteps(MoveW, MoveH)
    /\ pf_pc = "idle"
    /\ pf_result = None
    /\ pushed = <<>>
    /\ GridFresh
    /\ StepsIdle
    /\ RelaxFresh
    /\ BrokerIdle
    /\ BrainIdle

NextMove ==
    \E dirs \in [1..Movers -> Directions \cup {"None"}] : move_tick(dirs)

SpecMove == InitMove /\ [][NextMove]_vars

\* C38: after the movement phase no two characters stand on one tile, and a
\* character that moved stands on a tile whose bit was not set in the grid
\* built for this tick from the terrain, the job stations and the characters.
C38_MovementKeepsApart ==
    move_call.op \in {"move", "panic"} =>
        /\ \A i, j \in 1..Len(characters) :
              i # j => characters[i] # characters[j]
        /\ \A i \in 1..Len(characters) :
              characters[i] # move_call.before[i]
                  => /\ BitGridAsserts(move_call.grid, characters[i])
                     /\ ~BitGridGet(move_call.grid, characters[i])

\* two characters were sent onto the same free tile in one tick: the first
\* took it and the second stepped aside
C38_Witness ==
    /\ move_call.op = "move"
    /\ \E i, j \in 1..Len(characters) :
          /\ i < j
          /\ move_call.dirs[i] # "None"
          /\ move_call.dirs[j] # "None"
          /\ AddDir(move_call.before[i], move_call.dirs[i])
               = AddDir(move_call.before[j], move_call.dirs[j])
          /\ characters[i] = AddDir(move_call.before[i], move_call.dirs[i])
          /\ characters[j] # move_call.before[j]
          /\ characters[j] # characters[i]

\* a character was sent off the grid: BitGrid::get aborts the tick
C38_PanicSeen == move_call.op = "panic"

\* every tile tried was blocked and the character stayed, the tile in the
\* fourth direction free and untried
C38_FourthUntried ==
    /\ move_call.op = "move"
    /\ \E i \in 1..Len(characters) :
          LET dir == move_call.dirs[i]
              pos == move_call.before[i]
              fourth == AddDir(pos, next_clockwise(next_clockwise(next_clockwise(dir))))
          IN /\ dir # "None"
             /\ characters[i] = pos
             /\ BitGridAsserts(move_call.walls, fourth)
             /\ ~BitGridGet(move_call.walls, fourth)

\* ------------------------------ an operator waiting for a haul, and a hauler
WorkIds == 3
WorkWaitTicks == 2

\* the index of the second character, a Hauler; its update_goals calls are
\* the two steps accepted_elsewhere and dropped_off
Other == NumBrains

\* a character that stays next to the station, with or without oxygen, in
\* good or low morale, WorkIds ids
WorkScene ==
    [ids |-> WorkIds,
     path_len |-> MaxPathLen,
     positions |-> {<<1, 0>>},
     oxygen |-> {0, LOW_OXYGEN_THRESHOLD + 1},
     morale |-> MoraleLevels]

\* the seeding call of the second character (199-276): its stack is empty
\* and it accepts the one entry it finds reachable (257-271)
accepted_elsewhere(notif_id) ==
    /\ ~panicked
    /\ brains[Other].goal_stack = <<>>
    /\ Position(notifications, notif_id) # 0
    /\ LET c == AcceptJob([brain |-> brains[Other], ns |-> notifications,
                           counter |-> id_counter, cap |-> capacity,
                           panicked |-> FALSE, accepted |-> <<>>,
                           oxygen |-> MAX_OXYGEN - 1],
                          notif_id)
       IN /\ brains' = [brains EXCEPT ![Other] = c.brain]
          /\ notifications' = c.ns
    /\ last_think' = NoThink
    /\ UNCHANGED <<id_counter, capacity, last_call, issued, claimed>>
    /\ UNCHANGED <<next_brain, panicked, job_changes>>
    /\ UNCHANGED <<pathVars, unitVars>>

\* the call in which the second character delivers: its Haul goal is
\* finished and popped (563, 762-765)
dropped_off ==
    /\ ~panicked
    /\ brains[Other].goal_stack # <<>>
    /\ brains' = [brains EXCEPT ![Other].goal_stack = <<>>]
    /\ last_think' = NoThink
    /\ UNCHANGED brokerVars
    /\ UNCHANGED <<next_brain, panicked, job_changes>>
    /\ UNCHANGED <<pathVars, unitVars>>

\* Game::new (lib.rs 228-283) in a world of BrainW x 1 tiles, after the
\* character menu made the first character the operator of the generator
\* and the second a Hauler
InitWork ==
    /\ brains = [i \in 0..Other |->
                    [BrainNew(WorkWaitTicks) EXCEPT
                        !.job = IF i = Other THEN Hauler
                                ELSE Operator(ENERGY_GENERATOR)]]
    /\ next_brain = NumBrains
    /\ panicked = FALSE
    /\ job_changes = 0
    /\ last_think = NoThink
    /\ notifications = <<>>
    /\ id_counter = 0
    /\ capacity = BacklogIds
    /\ last_call = [op |-> "new", arg |-> 0, ret |-> None, after |-> None]
    /\ issued = {}
    /\ claimed = {}
    /\ width = BrainW
    /\ height = 1
    /\ walls = {JobStations[i].position : i \in 1..Len(JobStations)}
    /\ destinations = {}
    /\ from = <<0, 0>>
    /\ single_destination = FALSE
    /\ allow_wall_destination = FALSE
    /\ try_positions = <<>>
    /\ shortest_distance_to_pos = ZeroedDistances(BrainW, 1)
    /\ step_to_previous_in_path = ZeroedSteps(BrainW, 1)
    /\ pf_pc = "idle"
    /\ pf_result = None
    /\ pushed = <<>>
    /\ UnitIdle

NextWork ==
    \/ update_goals(WorkScene)
    \/ \E on_oxygen_and_morale_tick \in BOOLEAN : tick(on_oxygen_and_morale_tick)
    \/ \E brain_index \in 0..(NumBrains - 1), forward \in BOOLEAN :
          set_job(brain_index, forward)
    \/ \E notif_id \in 0..(WorkIds - 1) : accepted_elsewhere(notif_id)
    \/ dropped_off

SpecWork == InitWork /\ [][NextWork]_vars

\* ------------------------------------------------ a call without oxygen
\* C37: a call made for a character whose oxygen is 0 empties the goal stack
\* of that character and changes nothing else: the broker, the stockpiles,
\* the oxygen and the idle counter are as before, no goal was seeded and
\* none executed.
C37_OutOfOxygenOnlyClears ==
    [][(last_think'.brain # -1 /\ last_think'.oxygen = 0)
         => /\ brains' = [brains EXCEPT ![last_think'.brain].goal_stack = <<>>]
            /\ UNCHANGED brokerVars
            /\ UNCHANGED sceneVars
            /\ last_think'.seeded = <<>>
            /\ last_think'.accepted = <<>>
            /\ last_think'.executed = None
            /\ last_think'.drawn = None]_vars

\* a call without oxygen was made while a request of the character was live
\* and its idle counter had run up: the stack is empty, the rest is there
C37_Witness ==
    /\ last_think.brain # -1
    /\ last_think.oxygen = 0
    /\ brains[last_think.brain].goal_stack = <<>>
    /\ brains[last_think.brain].ticks_without_goal > 0
    /\ notifications # <<>>

\* ------------------------------------------------------ the relax fallback
\* the calls of WorkScene in good morale, and those in low morale
CalmScene == [WorkScene EXCEPT !.morale = {LOW_MORALE_THRESHOLD + 1}]

DemoralizedScene == [WorkScene EXCEPT !.morale = {LOW_MORALE_THRESHOLD}]

\* the call that last_think' records found the stack empty, seeded nothing
\* and did not push for oxygen
EmptyAfterInterrupt ==
    /\ last_think'.brain # -1
    /\ last_think'.oxygen # 0
    /\ brains[last_think'.brain].goal_stack = <<>>
    /\ last_think'.seeded = <<>>
    /\ last_think'.drawn # None => ~Unwrap(last_think'.drawn).interrupted

\* that call pushed a Relax goal on the empty stack and left the counter
RelaxPushed ==
    /\ last_think'.drawn # None
    /\ Len(Unwrap(last_think'.drawn).stack) = 1
    /\ Unwrap(last_think'.drawn).stack[1].type = "Relax"
    /\ brains'[last_think'.brain].ticks_without_goal
         = brains[last_think'.brain].ticks_without_goal

\* that call pushed nothing and counted one idle tick
IdleCounted ==
    /\ last_think'.drawn = None
    /\ brains'[last_think'.brain].goal_stack = <<>>
    /\ brains'[last_think'.brain].ticks_without_goal
         = brains[last_think'.brain].ticks_without_goal + 1

\* C34 as stated: in a call whose stack is empty after seeding and the
\* interrupt, a Relax goal is pushed if and only if the character is
\* demoralized or ticks_without_goal is above wait_ticks; otherwise nothing
\* is pushed and ticks_without_goal grows by one.
C34_RelaxAfterExceeding ==
    [][EmptyAfterInterrupt
         => /\ update_goals(DemoralizedScene) => RelaxPushed
            /\ update_goals(CalmScene)
                 => IF brains[last_think'.brain].ticks_without_goal
                         > brains[last_think'.brain].wait_ticks
                    THEN RelaxPushed ELSE IdleCounted]_vars

\* C34, amended: a Relax goal is pushed if and only if the character is
\* demoralized or ticks_without_goal has reached wait_ticks; otherwise
\* nothing is pushed and ticks_without_goal grows by one.
C34_RelaxOnReaching ==
    [][EmptyAfterInterrupt
         => /\ update_goals(DemoralizedScene) => RelaxPushed
            /\ update_goals(CalmScene)
                 => IF brains[last_think'.brain].ticks_without_goal
                         >= brains[last_think'.brain].wait_ticks
                    THEN RelaxPushed ELSE IdleCounted]_vars

\* a character in good morale with nothing to do was counted idle for
\* wait_ticks calls and then pushed a Relax goal
C34_Witness ==
    /\ last_think.brain # -1
    /\ last_think.oxygen # 0
    /\ last_think.seeded = <<>>
    /\ last_think.drawn # None
    /\ ~Unwrap(last_think.drawn).interrupted
    /\ Len(Unwrap(last_think.drawn).stack) = 1
    /\ Unwrap(last_think.drawn).stack[1].type = "Relax"
    /\ brains[last_think.brain].ticks_without_goal
         = brains[last_think.brain].wait_ticks
    /\ brains[last_think.brain].job = Idle

\* ------------------------------------------- the haul timer of a Work goal
\* the call that last_think' records executed a Work goal next to its
\* station while the station was short of its resource
WaitingAtStation ==
    /\ Executed("Work")
    /\ StationInReach(Unwrap(last_think'.executed).job,
                      Unwrap(last_think'.drawn).current_position, 1) # 0
    /\ ~Unwrap(last_think'.drawn).flag

\* the Work goal as that call found it, and as the call left it
WorkBefore == Unwrap(last_think'.executed)

WorkAfter ==
    Unwrap(last_think'.drawn).executed_stack[
        Len(Unwrap(last_think'.drawn).executed_stack)]

\* the request the Work goal asks for at its station
RequestOf(job) ==
    HaulDescription(Details(job).resource_variant, Details(job).resource_amount,
                    <<job, JobStations[StationInReach(job, <<1, 0>>, 1)].position>>)

\* C33: a Work goal next to its under-resourced station that holds no timer
\* brokers one request and holds the timer (id, wait_ticks - 1) after the
\* call; one that holds the timer (id, n) while the request is live brokers
\* no request, and with n > 0 leaves the broker as it is and holds
\* (id, n - 1), with n = 0 removes the request and makes its Haul the
\* subgoal: the request is claimed in the wait_ticks-th call after the one
\* that brokered it and in no call before.
C33_SelfClaimOnTime ==
    [][WaitingAtStation
         => LET timeout == WorkBefore.haul_wait_timeout
                subgoal == Unwrap(last_think'.drawn).new_instrumental_goal
                wait_ticks == brains[last_think'.brain].wait_ticks
            IN IF timeout = None
               THEN /\ id_counter' = id_counter + 1
                    /\ IF wait_ticks > 0
                       THEN /\ notifications' =
                                  Append(notifications,
                                         <<id_counter, RequestOf(WorkBefore.job)>>)
                            /\ subgoal = None
                            /\ WorkAfter.haul_wait_timeout
                                 = Some(<<id_counter, wait_ticks - 1>>)
                       ELSE /\ notifications' = notifications
                            /\ subgoal = Some(Haul(RequestOf(WorkBefore.job)))
                            /\ WorkAfter.haul_wait_timeout = None
               ELSE CheckResult(notifications, Unwrap(timeout)[1])
                      => /\ id_counter' = id_counter
                         /\ IF Unwrap(timeout)[2] > 0
                            THEN /\ notifications' = notifications
                                 /\ subgoal = None
                                 /\ WorkAfter.haul_wait_timeout
                                      = Some(<<Unwrap(timeout)[1],
                                               Unwrap(timeout)[2] - 1>>)
                            ELSE LET r == RemoveResult(notifications,
                                                       Unwrap(timeout)[1])
                                 IN /\ notifications' = r.ns
                                    /\ subgoal = Some(Haul(Unwrap(r.ret)))
                                    /\ WorkAfter.haul_wait_timeout = None
                                    /\ (/\ ~Unwrap(last_think'.drawn).goal_not_acheivable
                                        /\ ~Unwrap(last_think'.drawn).goal_finished)
                                         => StackAfter =
                                              Append(Unwrap(last_think'.drawn).executed_stack,
                                                     Unwrap(subgoal))]_vars

\* the timer of a Work goal ran out while its request was live: the request
\* is off the broker and its Haul is on top of the Work goal
C33_Witness ==
    /\ last_think.brain # -1
    /\ last_think.executed # None
    /\ Unwrap(last_think.executed).type = "Work"
    /\ Unwrap(last_think.executed).haul_wait_timeout # None
    /\ Unwrap(Unwrap(last_think.executed).haul_wait_timeout)[2] = 0
    /\ ~CheckResult(notifications,
                    Unwrap(Unwrap(last_think.executed).haul_wait_timeout)[1])
    /\ Len(brains[last_think.brain].goal_stack) = 2
    /\ brains[last_think.brain].goal_stack[1] = Work(None, ENERGY_GENERATOR)
    /\ brains[last_think.brain].goal_stack[2] = Haul(RequestOf(ENERGY_GENERATOR))

\* the second character carries a haul to the station of `job`
CarriedElsewhere(job) ==
    \E k \in 1..Len(brains[Other].goal_stack) :
        /\ brains[Other].goal_stack[k].type = "Haul"
        /\ brains[Other].goal_stack[k].description.destination
             = RequestOf(job).destination

\* the station check (346-393) of the next call of the calling brain, made
\* with the Work goal and the broker as this call leaves them, next to the
\* station and the station still short of its resource
NextStationCheck ==
    StationCheck([brain |-> brains'[last_think'.brain], ns |-> notifications',
                  counter |-> id_counter', cap |-> capacity',
                  panicked |-> FALSE, accepted |-> <<>>,
                  oxygen |-> last_think'.oxygen],
                 WorkAfter,
                 StationInReach(WorkAfter.job,
                                Unwrap(last_think'.drawn).current_position, 1),
                 FALSE)

\* C32: when the timer of a Work goal runs out after another character took
\* the request, the call pushes no Haul, leaves the Work goal on the stack
\* and the broker as it is, and while that character carries the haul the
\* next call of the Work goal brokers no request for the station.
C32_WaitsForClaimedHaul ==
    [][(/\ WaitingAtStation
        /\ WorkBefore.haul_wait_timeout # None
        /\ Unwrap(WorkBefore.haul_wait_timeout)[2] = 0
        /\ ~CheckResult(notifications, Unwrap(WorkBefore.haul_wait_timeout)[1])
        /\ CarriedElsewhere(WorkBefore.job)
        /\ ~Unwrap(last_think'.drawn).goal_not_acheivable
        /\ ~Unwrap(last_think'.drawn).goal_finished)
         => /\ Unwrap(last_think'.drawn).new_instrumental_goal = None
            /\ StackAfter = Unwrap(last_think'.drawn).executed_stack
            /\ notifications' = notifications
            /\ id_counter' = id_counter
            /\ NextStationCheck.c.ns = notifications'
            /\ NextStationCheck.c.counter = id_counter']_vars

\* C36: at the end of an update_goals call every id that is live on the
\* broker is the id in the haul timer of a Work goal on some goal stack.
C36_EntriesTracked ==
    last_think.brain # -1
        => \A i \in 1..Len(notifications) :
              \E b \in DOMAIN brains :
                 \E k \in 1..Len(brains[b].goal_stack) :
                    /\ brains[b].goal_stack[k].type = "Work"
                    /\ brains[b].goal_stack[k].haul_wait_timeout # None
                    /\ Unwrap(brains[b].goal_stack[k].haul_wait_timeout)[1]
                         = notifications[i][1]
====
